---- MODULE Spec2Model ----
(***************************************************************************)
(* The agent orchestration loop of the website-builder backend             *)
(* (src/index.js): runAgent, retryWithBackoff, extractResponseText, the    *)
(* tool handlers behind availableTools and the ProjectHistory map.         *)
(*                                                                         *)
(* A run of runAgent is a process: it is cut at its awaits (the read of    *)
(* the existing files, the generateContent call, the backoff sleep, the    *)
(* tool handler), and each action is the code between two awaits.          *)
(* Texts are modelled as sequences of strings, so that the empty string    *)
(* is <<>> and a templated message keeps its interpolated values.          *)
(***************************************************************************)
EXTENDS Integers, Sequences, FiniteSets, TLC

\* ------------------------------------------------------------------ bounds

\* Loop iterations (calls of retryWithBackoff) one run may make; the source
\* has no cap (while (true)), the model stops offering tool requests and
\* malformed responses to a run that has used them up.
MaxIter == 3

\* The same cap for the runs of SpecCreate.
MaxIterCreate == 4

\* The same cap for each of the two runs of SpecTwo.
MaxIterTwo == 2

\* Entries pushed for one user before no further chat request is served, in
\* SpecChat and in SpecChatLong.
MaxChatLog == 4
MaxChatLogLong == 21

\* Responses without a text answer one run receives inside /api/build or
\* /api/update.
MaxIterApi == 2

\* Entries pushed for one user by the chat requests that are classified.
MaxIntentLog == 2

\* Largest maxRetries a call of retryWithBackoff on its own is given.
MaxRetriesArg == 4

\* Tool rounds of a run whose file writes are followed.
MaxIterWrites == 3

\* ------------------------------------------------------- program constants

\* retryWithBackoff(fn, maxRetries = 3, baseDelay = 1000)
maxRetries == 3
baseDelay == 1000

\* The processes: invocations of runAgent.
Runs == {"run1", "run2"}

\* projectName = null
NULL == "null"

\* The project and the mode runAgent is called with.
RunArguments ==
    { [name |-> "site", update |-> FALSE], [name |-> "site", update |-> TRUE],
      [name |-> NULL, update |-> TRUE] }
UserIds == {"u1"}
UserProblems == {<<"make a portfolio site">>}

RECURSIVE Pow2(_)
\* Math.pow(2, n)
Pow2(n) == IF n <= 0 THEN 1 ELSE 2 * Pow2(n - 1)

\* ------------------------------------------------------------ the registry

\* The keys of availableTools, in declaration order.
ToolNames ==
    << "executeCommand", "writeToFile", "listProjects", "readProjectFiles",
       "updateProjectFiles", "deployProject", "translateContent" >>

ToolNameSet == { ToolNames[i] : i \in 1..Len(ToolNames) }

\* availableTools[name]: the own handler, an inherited function, or undefined.
\* Every object literal inherits from Object.prototype functions, such as
\* toString, which return when called as plain functions.
availableTools(name) ==
    IF name \in ToolNameSet THEN "handler"
    ELSE IF name \in {"toString"} THEN "inherited"
    ELSE "undefined"

\* { name, parameters: { properties, required } } of a declaration.
Declaration(name, properties, required) ==
    [name |-> name, properties |-> properties, required |-> required]

executeCommandDeclaration ==
    Declaration("executeCommand", << "command" >>, << "command" >>)
writeToFileDeclaration ==
    Declaration("writeToFile", << "filePath", "content" >>, << "filePath", "content" >>)
listProjectsDeclaration ==
    Declaration("listProjects", << >>, << >>)
readProjectFilesDeclaration ==
    Declaration("readProjectFiles", << "projectName" >>, << "projectName" >>)
updateProjectFilesDeclaration ==
    Declaration("updateProjectFiles", << "projectName", "updates" >>,
                << "projectName", "updates" >>)
deployProjectDeclaration ==
    Declaration("deployProject", << "projectName", "siteName" >>, << "projectName" >>)
translateContentDeclaration ==
    Declaration("translateContent", << "text", "targetLanguage", "context" >>,
                << "text", "targetLanguage" >>)

functionDeclarationsMutC31(update) ==
    IF update
    THEN << executeCommandDeclaration, listProjectsDeclaration,
            readProjectFilesDeclaration, updateProjectFilesDeclaration,
            deployProjectDeclaration, translateContentDeclaration >>
    ELSE << executeCommandDeclaration, writeToFileDeclaration, listProjectsDeclaration,
            readProjectFilesDeclaration, updateProjectFilesDeclaration,
            deployProjectDeclaration, translateContentDeclaration >>

\* config.tools[0].functionDeclarations of a generateContent call made by a
\* run in the given mode.
functionDeclarations(update) ==
    << executeCommandDeclaration, writeToFileDeclaration, listProjectsDeclaration,
       readProjectFilesDeclaration, updateProjectFilesDeclaration,
       deployProjectDeclaration, translateContentDeclaration >>

\* ------------------------------------------------------ conversation turns

\* { role: 'user', parts: [{ text }] }
UserText(text) == [role |-> "user", parts |-> << [text |-> text] >>]

\* { role: 'model', parts: [{ text }] }
ModelText(text) == [role |-> "model", parts |-> << [text |-> text] >>]

\* { role: "model", parts: [{ functionCall }] }
ModelCall(call) == [role |-> "model", parts |-> << [functionCall |-> call] >>]

\* { role: "user", parts: [{ functionResponse: { name, response: { result } } }] }
UserResponse(name, result) ==
    [role |-> "user",
     parts |-> << [functionResponse |->
                    [name |-> name, response |-> [result |-> result]]] >>]

IsCallTurn(t) == t.role = "model" /\ "functionCall" \in DOMAIN t.parts[1]
IsResponseTurn(t) == t.role = "user" /\ "functionResponse" \in DOMAIN t.parts[1]
IsTextTurn(t) == "text" \in DOMAIN t.parts[1]

\* ------------------------------------------- what generateContent can yield

\* The value JavaScript prints for an undefined interpolation or returns for
\* a missing property; kept apart from every text the model can produce.
UNDEFINED == << "undefined" >>

\* Texts the model answers with.
AnswerTexts == { << "Done" >>, << "ok" >> }

\* Arguments of a function call: present (an object) or absent (undefined).
\* An object names a project, in its filePath ("projects/<name>/<file>") or
\* in its projectName.
ArgsObject == [present |-> TRUE, projectName |-> "site"]
ArgsOther == [present |-> TRUE, projectName |-> "other"]
ArgsUndefined == [present |-> FALSE]

FunctionCall(name, args) == [name |-> name, args |-> args]

\* Names the model asks for: every declared tool, a name nothing declares,
\* and a name only Object.prototype defines.
RequestedNames == ToolNameSet \cup {"noSuchTool", "toString"}

\* A candidate of a response.
Candidate(finishReason, hasContent, hasParts, parts, text) ==
    [finishReason |-> finishReason, hasContent |-> hasContent,
     hasParts |-> hasParts, parts |-> parts, text |-> text]

\* A response: its text getter, its candidates, its functionCalls getter.
Response(text, candidates, functionCalls) ==
    [text |-> text, candidates |-> candidates, functionCalls |-> functionCalls]

NoResponse == Response(<<>>, <<>>, <<>>)

OtherPart == [hasText |-> FALSE, text |-> <<>>]

\* A plain text answer.
TextResponses ==
    { Response(t, << Candidate("STOP", TRUE, TRUE, << [hasText |-> TRUE, text |-> t] >>, <<>>) >>, <<>>)
        : t \in AnswerTexts }

\* Responses with no text getter value, one for each branch of
\* extractResponseText.
ShapeResponses ==
    { \* content without parts (MAX_TOKENS with no output)
      Response(<<>>, << Candidate("MAX_TOKENS", TRUE, FALSE, <<>>, <<>>) >>, <<>>),
      \* content with an empty parts list
      Response(<<>>, << Candidate("STOP", TRUE, TRUE, <<>>, <<>>) >>, <<>>),
      \* a candidate with neither content nor text
      Response(<<>>, << Candidate("SAFETY", FALSE, FALSE, <<>>, <<>>) >>, <<>>),
      \* a first part that holds no text
      Response(<<>>, << Candidate("STOP", TRUE, TRUE, << OtherPart >>, <<>>) >>, <<>>),
      \* a candidate with a text of its own
      Response(<<>>, << Candidate("STOP", FALSE, FALSE, <<>>, << "ok" >>) >>, <<>>),
      \* no candidate at all
      Response(<<>>, <<>>, <<>>) }

\* The backend could not form a valid call.
MalformedResponse ==
    Response(<<>>, << Candidate("MALFORMED_FUNCTION_CALL", FALSE, FALSE, <<>>, <<>>) >>, <<>>)

\* Names the model asks for without arguments: a handler that destructures
\* its parameter, one that takes none, and the inherited function.
RequestedWithoutArgs == {"writeToFile", "listProjects", "toString"}

\* One function call, or two in one response.
CallResponses ==
    { Response(<<>>,
               << Candidate("STOP", TRUE, TRUE, << OtherPart >>, <<>>) >>,
               << FunctionCall(n, ArgsObject) >>)
        : n \in RequestedNames }
    \cup
    { Response(<<>>,
               << Candidate("STOP", TRUE, TRUE, << OtherPart >>, <<>>) >>,
               << FunctionCall(n, ArgsUndefined) >>)
        : n \in RequestedWithoutArgs }
    \cup
    { Response(<<>>,
               << Candidate("STOP", TRUE, TRUE, << OtherPart, OtherPart >>, <<>>) >>,
               << FunctionCall(n, ArgsObject), FunctionCall("deployProject", ArgsObject) >>)
        : n \in {"writeToFile", "updateProjectFiles"} }

\* Messages of the errors generateContent rejects with; "" is an error
\* without a message.
ErrorMessages ==
    { "503 Service Unavailable", "UNAVAILABLE", "400 INVALID_ARGUMENT",
      "429 QUOTA_EXCEEDED", "" }

\* error.message.includes('503')
Includes503(message) == message \in { "503 Service Unavailable" }

\* -------------------------------------------------------------- JS values

\* A string value.
Str(text) == [typeof |-> "string", text |-> text, props |-> <<>>]

\* An object value with its properties (name -> text).
Obj(props) == [typeof |-> "object", text |-> <<>>, props |-> props]

\* value[key] is truthy
Truthy(value, key) == key \in DOMAIN value.props /\ value.props[key] # <<>>

\* What a call leaves behind: a returned value or a thrown error.
Returned(value) == [threw |-> FALSE, value |-> value, message |-> ""]
Threw(message) == [threw |-> TRUE, value |-> Str(<<>>), message |-> message]

\* ------------------------------------------------------------------ strings

LowerCase == "abcdefghijklmnopqrstuvwxyz"
UpperCase == "ABCDEFGHIJKLMNOPQRSTUVWXYZ"

\* str[i - 1] as a string of one character
charAt(str, i) == SubSeq(str, i, i)

\* The characters of a string.
Chars(str) == { charAt(str, i) : i \in 1..Len(str) }

\* The lower-case letter of each upper-case letter.
LowerOf ==
    [c \in Chars(UpperCase) |->
        charAt(LowerCase, CHOOSE i \in 1..Len(UpperCase) : charAt(UpperCase, i) = c)]

RECURSIVE toLowerCase(_)
\* str.toLowerCase()
toLowerCase(str) ==
    IF Len(str) = 0 THEN ""
    ELSE LET c == charAt(str, 1)
         IN (IF c \in DOMAIN LowerOf THEN LowerOf[c] ELSE c)
               \o toLowerCase(SubSeq(str, 2, Len(str)))

\* str.includes(sub)
includes(str, sub) ==
    \E i \in 1..(Len(str) - Len(sub) + 1) : SubSeq(str, i, i + Len(sub) - 1) = sub

\* [a-zA-Z0-9-_]
WordChars == Chars(LowerCase) \cup Chars(UpperCase) \cup Chars("0123456789") \cup {"-", "_"}

\* \s
Whitespace == {" ", "\t", "\n"}

RECURSIVE span(_, _, _)
\* How many characters of the class follow each other from position i on.
span(str, i, class) ==
    IF i <= Len(str) /\ charAt(str, i) \in class
    THEN 1 + span(str, i + 1, class)
    ELSE 0

\* /keyword<seps>+([a-zA-Z0-9-_]+)/i matches str at position i (lower is
\* str in lower case).
matchAt(str, lower, keyword, seps, i) ==
    /\ SubSeq(lower, i, i + Len(keyword) - 1) = keyword
    /\ span(str, i + Len(keyword), seps) > 0
    /\ span(str, i + Len(keyword) + span(str, i + Len(keyword), seps), WordChars) > 0

RECURSIVE search(_, _, _, _, _)
\* The leftmost position from i on where the pattern matches, or 0.
search(str, lower, keyword, seps, i) ==
    IF i > Len(str) - Len(keyword) + 1 THEN 0
    ELSE IF matchAt(str, lower, keyword, seps, i) THEN i
    ELSE search(str, lower, keyword, seps, i + 1)

\* str.match(/keyword<seps>+([a-zA-Z0-9-_]+)/i): match[1] of the leftmost
\* match, or null.
capture(str, lower, keyword, seps) ==
    LET i == search(str, lower, keyword, seps, 1)
        start == i + Len(keyword) + span(str, i + Len(keyword), seps)
    IN IF i = 0 THEN NULL
       ELSE SubSeq(str, start, start + span(str, start, WordChars) - 1)

\* ------------------------------------------------------ extractResponseText

extractResponseText(response) ==
    IF response.text # <<>>
    THEN Returned(Str(response.text))
    ELSE IF Len(response.candidates) > 0
    THEN LET candidate == response.candidates[1] IN
         IF candidate.finishReason = "MALFORMED_FUNCTION_CALL"
         THEN Threw("AI made a malformed function call")
         ELSE IF candidate.hasContent /\ candidate.hasParts /\ Len(candidate.parts) > 0
         THEN Returned(Str(IF candidate.parts[1].hasText
                           THEN candidate.parts[1].text ELSE UNDEFINED))
         ELSE IF candidate.text # <<>>
         THEN Returned(Str(candidate.text))
         ELSE IF candidate.hasContent /\ ~candidate.hasParts
         THEN Returned(Str(<<>>))
         ELSE Threw("Unexpected candidate structure from AI")
    ELSE Threw("Unexpected response format from AI")

\* --------------------------------------------------------- retryWithBackoff

\* The catch block of one attempt: rethrow, or sleep before the next one.
retryWithBackoffMutC3(attempt, retries, delay0, error) ==
    IF attempt = retries
    THEN [do |-> "throw", delay |-> 0]
    ELSE IF error.message # "" /\ Includes503(error.message)
    THEN [do |-> "sleep", delay |-> delay0 * Pow2(attempt)]
    ELSE [do |-> "throw", delay |-> 0]

retryWithBackoffMutC4(attempt, retries, delay0, error) ==
    IF attempt = retries
    THEN [do |-> "throw", delay |-> 0]
    ELSE [do |-> "sleep", delay |-> delay0 * Pow2(attempt - 1)]

retryWithBackoffMutC9(attempt, retries, delay0, error) ==
    IF attempt >= retries - 1
    THEN [do |-> "throw", delay |-> 0]
    ELSE IF error.message # "" /\ Includes503(error.message)
    THEN [do |-> "sleep", delay |-> delay0 * Pow2(attempt - 1)]
    ELSE [do |-> "throw", delay |-> 0]

retryWithBackoffMutC29(attempt, retries, delay0, error) ==
    IF attempt = retries + 1
    THEN [do |-> "throw", delay |-> 0]
    ELSE IF error.message # "" /\ Includes503(error.message)
    THEN [do |-> "sleep", delay |-> delay0 * Pow2(attempt - 1)]
    ELSE [do |-> "throw", delay |-> 0]

retryWithBackoff(attempt, retries, delay0, error) ==
    IF attempt = retries
    THEN [do |-> "throw", delay |-> 0]
    ELSE IF error.message # "" /\ Includes503(error.message)
    THEN [do |-> "sleep", delay |-> delay0 * Pow2(attempt - 1)]
    ELSE [do |-> "throw", delay |-> 0]

\* ------------------------------------------------------------ tool handlers

\* What the collaborator behind a handler (shell, storage, deployment
\* provider, translation model) does during one call.
CollaboratorOutcomes(name) ==
    CASE name = "executeCommand" -> {"ok", "commandFailed"}
      [] name = "writeToFile" -> {"ok", "invalidPath", "storageError"}
      [] name = "listProjects" -> {"ok", "storageError"}
      [] name = "readProjectFiles" -> {"ok", "notFound"}
      [] name = "updateProjectFiles" -> {"ok", "notFound"}
      [] name = "deployProject" -> {"ok", "deployError"}
      [] name = "translateContent" -> {"ok", "translateError"}
      [] OTHER -> {"ok"}

\* A handler whose parameter is destructured fails before its try block
\* when it is called without arguments.
DestructureError == "Cannot destructure property of undefined"

executeCommand(args, env) ==
    IF ~args.present THEN Threw(DestructureError)
    ELSE IF env = "ok" THEN Returned(Str(<<"Success", "executeCommand">>))
    ELSE Returned(Str(<<"Error", env>>))

writeToFileMutC8(args, userId, env) ==
    IF ~args.present THEN Threw(DestructureError)
    ELSE IF env = "ok" THEN Returned(Str(<<"Success", "Content written">>))
    ELSE IF env = "storageError" THEN Threw(env)
    ELSE Returned(Str(<<"Error", env>>))

writeToFile(args, userId, env) ==
    IF ~args.present THEN Threw(DestructureError)
    ELSE IF env = "ok" THEN Returned(Str(<<"Success", "Content written">>))
    ELSE Returned(Str(<<"Error", env>>))

listProjects(env) ==
    IF env = "ok" THEN Returned(Obj("0" :> <<"site">>))
    ELSE Returned(Str(<<"Error", env>>))

\* The files readAllProjectFiles finds for a project that has some.
SomeFiles ==
    ("index.html" :> <<"<html>">>) @@ ("style.css" :> <<"body{}">>)
        @@ ("script.js" :> <<"js">>)

readProjectFiles(args, userId, env, files) ==
    IF ~args.present THEN Threw(DestructureError)
    ELSE IF env = "storageError" THEN Returned(Str(<<"Error", env>>))
    ELSE IF env = "notFound" \/ DOMAIN files = {}
    THEN Returned(Str(<<"Error", "not found or has no files">>))
    ELSE Returned(Obj(files))

updateProjectFiles(args, userId, env) ==
    IF ~args.present THEN Threw(DestructureError)
    ELSE IF env = "ok" THEN Returned(Obj("index.html" :> <<"Updated successfully">>))
    ELSE Returned(Str(<<"Error", env>>))

deployProject(args, userId, env) ==
    IF ~args.present THEN Threw(DestructureError)
    ELSE IF env = "ok" THEN Returned(Str(<<"Success", "deployed">>))
    ELSE Returned(Str(<<"Error", env>>))

translateContent(args, env) ==
    IF ~args.present THEN Threw(DestructureError)
    ELSE IF env = "ok"
    THEN Returned(Obj(("success" :> <<"true">>) @@ ("translatedText" :> <<"text">>)))
    ELSE IF env = "unsupportedLanguage" THEN Returned(Str(<<"Error", env>>))
    ELSE Returned(Obj(("success" :> <<>>) @@ ("error" :> <<env>>)))

\* Object.prototype.toString called as a plain function.
inheritedToString(args) == Returned(Str(<<"[object Undefined]">>))

\* The projects storage.saveFile is called for by a handler call: the one
\* the arguments name, when the handler gets as far as saving.
saveFile(name, args, env) ==
    IF name \in {"writeToFile", "updateProjectFiles"} /\ args.present /\ env = "ok"
    THEN {args.projectName}
    ELSE {}

\* Calls a handler the way the loop does: with userId for the file and
\* deployment tools, without it for the others.
invoke(name, args, userId, env) ==
    CASE name = "executeCommand" -> executeCommand(args, env)
      [] name = "writeToFile" -> writeToFile(args, userId, env)
      [] name = "listProjects" -> listProjects(env)
      [] name = "readProjectFiles" -> readProjectFiles(args, userId, env, SomeFiles)
      [] name = "updateProjectFiles" -> updateProjectFiles(args, userId, env)
      [] name = "deployProject" -> deployProject(args, userId, env)
      [] name = "translateContent" -> translateContent(args, env)
      [] OTHER -> inheritedToString(args)

\* ------------------------------------------------------- the turns appended

\* Seeding of an update: the summary of the existing files and, when there
\* is one, the content of style.css.
PresentOrMissing(existingFiles, file) ==
    IF Truthy(existingFiles, file) THEN "Present" ELSE "Missing"

updateContextMutC18(name, existingFiles) ==
    << UserText(<< "UPDATE CONTEXT", name,
                   PresentOrMissing(existingFiles, "index.html"),
                   PresentOrMissing(existingFiles, "style.css"),
                   PresentOrMissing(existingFiles, "script.js") >>) >>
    \o (IF Truthy(existingFiles, "style.css")
        THEN << UserText(<< "CURRENT CSS CONTENT" >>
                         \o existingFiles.props["style.css"]) >>
        ELSE << >>)

updateContextMutC27(name, existingFiles) ==
    IF existingFiles.typeof = "object" /\ ~Truthy(existingFiles, "error")
    THEN << UserText(<< "UPDATE CONTEXT", name,
                        PresentOrMissing(existingFiles, "style.css"),
                        PresentOrMissing(existingFiles, "index.html"),
                        PresentOrMissing(existingFiles, "script.js") >>) >>
         \o (IF Truthy(existingFiles, "style.css")
             THEN << UserText(<< "CURRENT CSS CONTENT" >>
                              \o existingFiles.props["style.css"]) >>
             ELSE << >>)
    ELSE << >>

updateContext(name, existingFiles) ==
    IF existingFiles.typeof = "object" /\ ~Truthy(existingFiles, "error")
    THEN << UserText(<< "UPDATE CONTEXT", name,
                        PresentOrMissing(existingFiles, "index.html"),
                        PresentOrMissing(existingFiles, "style.css"),
                        PresentOrMissing(existingFiles, "script.js") >>) >>
         \o (IF Truthy(existingFiles, "style.css")
             THEN << UserText(<< "CURRENT CSS CONTENT" >>
                              \o existingFiles.props["style.css"]) >>
             ELSE << >>)
    ELSE << >>

\* The corrective turn after a malformed function call.
malformedCorrection(name) ==
    UserText(<< "ERROR: Your last function call was malformed", name >>)

\* The corrective turn after writeToFile in an update.
writeToFileCorrection(name) ==
    UserText(<< "ERROR: You cannot use writeToFile tool for updates", name >>)

\* The corrective turn after another tool that updates may not use.
wrongToolCorrection(tool) ==
    UserText(<< "ERROR: For updates, you should use updateProjectFiles", tool >>)

policyMutC2(update, name) ==
    IF update /\ name = "writeToFile" THEN "rejectWriteToFile" ELSE "dispatch"

\* The tool-usage policy of an update, applied to the requested name.
policy(update, name) ==
    IF update /\ name = "writeToFile" THEN "rejectWriteToFile"
    ELSE IF update /\ name # "updateProjectFiles" /\ name # "readProjectFiles"
                   /\ name # "listProjects"
    THEN "rejectWrongTool"
    ELSE "dispatch"

toolTurnsMutC1(call, result) == << ModelCall(call) >>

toolTurnsMutC5(call, result) ==
    << UserResponse(call.name, result), ModelCall(call) >>

toolTurnsMutC13(call, result) ==
    << ModelCall(call), UserResponse("tool", result) >>

toolTurnsMutC28(call, result) ==
    << ModelCall(call), UserResponse(call.name, Str(<< "Success" >>)) >>

\* The two turns recording a tool call and its result.
toolTurns(call, result) ==
    << ModelCall(call), UserResponse(call.name, result) >>

firstCallMutC11(response) == response.functionCalls[Len(response.functionCalls)]

\* const { name, args } = response.functionCalls[0]
firstCall(response) == response.functionCalls[1]

isMalformedMutC6(response) == FALSE

\* The response is flagged as a malformed function call.
isMalformed(response) ==
    /\ Len(response.candidates) > 0
    /\ response.candidates[1].finishReason = "MALFORMED_FUNCTION_CALL"

\* ------------------------------------------------------------------- state

VARIABLES
    ProjectHistory,   \* the Map: project name -> stored history
    pc,               \* where each run stands
    userProblem, projectName, isUpdate, userId,   \* the arguments of a run
    projectHistory,   \* the stored history the run found at its start
    currentHistory,   \* the run's own copy of the history
    iter,             \* loop iterations the run has begun
    attempt,          \* retryWithBackoff's attempt counter
    slept,            \* delays slept in the current retryWithBackoff call
    caught,           \* messages of the errors it has caught, in order
    received,         \* kinds of the responses the run has received, in order
    response,         \* the response the current iteration received
    call,             \* the function call whose handler is running
    collaborator,     \* what the collaborator did in the last handler call
    handlerCalls,     \* names of the handlers the run has invoked, in order
    outcome,          \* how the run ended: the text returned or the error thrown
    tools,            \* the declarations sent with the run's latest generateContent call
    overlapped,       \* the runs that were suspended when the run was started
    writes,           \* the projects the run's handler calls have saved files under
    purged,           \* projects deleted and not referenced by a run started since
    ChatHistory,      \* the Map: user id -> the array that is the user's session
    arrays,           \* the arrays the chat endpoint holds references to
    chatPc,           \* where each /api/chat request stands
    chatRequest,      \* the request being served
    sessionHistory,   \* the array the request appends to
    chatLog,          \* per user, every entry pushed since the session was cleared
    chatResponse,     \* what the request answered
    context,          \* the request's locals once Project.find has settled
    storedAtStart,    \* the session stored for the user when the request arrived
    httpResponse,     \* what /api/build or /api/update answered for a run
    retry             \* one call of retryWithBackoff with arguments of its own

runVars ==
    << ProjectHistory, pc, userProblem, projectName, isUpdate, userId,
       projectHistory, currentHistory, iter, attempt, slept, caught, received,
       response, call, collaborator, handlerCalls, outcome, tools, overlapped,
       writes, purged >>

chatVars ==
    << ChatHistory, arrays, chatPc, chatRequest, sessionHistory, chatLog,
       chatResponse, context, storedAtStart >>

apiVars == << httpResponse, retry >>

vars == << runVars, chatVars, apiVars >>

\* The /api/chat requests in flight at one time.
Requests == {"q1", "q2"}

\* Names of the arrays the chat endpoint can hold at one time: the stored
\* session, the array of each request, and the one a slice creates.
ArrayIds == {"a1", "a2", "a3", "a4"}
NoArray == "none"

\* req.body of /api/chat: the message (missing, a string, or another value)
\* and the currentProject field.
Message(kind, text, currentProject) ==
    [kind |-> kind, text |-> text, currentProject |-> currentProject]

NoMessage == Message("missing", << >>, NULL)

\* A request as the handler sees it: req.userId and req.body.
ChatRequest(user, body) == [userId |-> user, body |-> body]

\* What /api/chat answers: the status, the response text, the action and
\* the project name.
ChatResponse(status, text, action, name) ==
    [status |-> status, text |-> text, action |-> action, projectName |-> name]

\* The locals of a chat request: mentionedProject, context.currentProject
\* and availableProjects.
Context(mentionedProject, currentProject, availableProjects) ==
    [mentionedProject |-> mentionedProject, currentProject |-> currentProject,
     availableProjects |-> availableProjects]

\* What /api/build or /api/update answers: the status and the fields of the
\* JSON body (NULL for a field the body does not have).
HttpResponse(status, success, error, details, result) ==
    [status |-> status, success |-> success, error |-> error, details |-> details,
     result |-> result]

NoHttpResponse == HttpResponse(0, FALSE, NULL, NULL, << >>)

\* A call retryWithBackoff(fn, maxRetries, baseDelay): its arguments, the
\* loop counter, how often fn was invoked, the delays slept, the messages of
\* the errors caught, and how it settled.
NoRetry ==
    [pc |-> "idle", maxRetries |-> 0, baseDelay |-> 0, attempt |-> 0, invoked |-> 0,
     slept |-> << >>, caught |-> << >>, returned |-> << >>, thrown |-> NULL]

\* An error and the attempt of retryWithBackoff that raised it (0 when it
\* was not raised by generateContent).
Error(message, from, at) == [message |-> message, from |-> from, at |-> at]

NoOutcome == [threw |-> FALSE, text |-> <<>>, error |-> Error("", "", 0)]

Init ==
    /\ ProjectHistory = << >>
    /\ pc = [r \in Runs |-> "idle"]
    /\ userProblem = [r \in Runs |-> << >>]
    /\ projectName = [r \in Runs |-> NULL]
    /\ isUpdate = [r \in Runs |-> FALSE]
    /\ userId = [r \in Runs |-> NULL]
    /\ projectHistory = [r \in Runs |-> << >>]
    /\ currentHistory = [r \in Runs |-> << >>]
    /\ iter = [r \in Runs |-> 0]
    /\ attempt = [r \in Runs |-> 0]
    /\ slept = [r \in Runs |-> << >>]
    /\ caught = [r \in Runs |-> << >>]
    /\ received = [r \in Runs |-> << >>]
    /\ response = [r \in Runs |-> NoResponse]
    /\ call = [r \in Runs |-> FunctionCall("", ArgsUndefined)]
    /\ collaborator = [r \in Runs |-> ""]
    /\ handlerCalls = [r \in Runs |-> << >>]
    /\ outcome = [r \in Runs |-> NoOutcome]
    /\ tools = [r \in Runs |-> << >>]
    /\ overlapped = [r \in Runs |-> {}]
    /\ writes = [r \in Runs |-> {}]
    /\ purged = {}
    /\ ChatHistory = << >>
    /\ arrays = [a \in ArrayIds |-> << >>]
    /\ chatPc = [q \in Requests |-> "idle"]
    /\ chatRequest = [q \in Requests |-> ChatRequest(NULL, NoMessage)]
    /\ sessionHistory = [q \in Requests |-> NoArray]
    /\ chatLog = [u \in UserIds |-> << >>]
    /\ chatResponse = [q \in Requests |-> ChatResponse(0, << >>, NULL, NULL)]
    /\ context = [q \in Requests |-> Context(NULL, NULL, << >>)]
    /\ storedAtStart = [q \in Requests |-> << >>]
    /\ httpResponse = [r \in Runs |-> NoHttpResponse]
    /\ retry = NoRetry

MapSetMutC33(map, name, history) ==
    [k \in DOMAIN map \cup {name} |->
        IF k # name THEN map[k]
        ELSE IF name \in DOMAIN map
        THEN map[name] \o history
        ELSE history]

\* ProjectHistory.set(name, history)
MapSet(map, name, history) ==
    [k \in DOMAIN map \cup {name} |-> IF k = name THEN history ELSE map[k]]

\* Map.delete(key)
MapDelete(map, key) == [k \in DOMAIN map \ {key} |-> map[k]]

\* The run throws: nothing is stored, the error reaches the caller.
Fail(r, error) ==
    /\ pc' = [pc EXCEPT ![r] = "Failed"]
    /\ outcome' = [outcome EXCEPT ![r] = [threw |-> TRUE, text |-> << >>, error |-> error]]

\* ai.models.generateContent is called by a run in the given mode.
generateContent(r, update) ==
    tools' = [tools EXCEPT ![r] = functionDeclarations(update)]

\* The loop goes round: a new call of retryWithBackoff starts at attempt 1.
Continue(r) ==
    /\ pc' = [pc EXCEPT ![r] = "Generating"]
    /\ iter' = [iter EXCEPT ![r] = iter[r] + 1]
    /\ attempt' = [attempt EXCEPT ![r] = 1]
    /\ slept' = [slept EXCEPT ![r] = << >>]
    /\ caught' = [caught EXCEPT ![r] = << >>]

\* runAgent is called: the entry is created when missing and copied; an
\* update of a named project then awaits the read of its files, every other
\* run appends the request and awaits the first generateContent call.
runAgentStart(r, problem, name, update, user) ==
    /\ pc[r] = "idle"
    /\ LET stored == IF name \in DOMAIN ProjectHistory
                     THEN ProjectHistory ELSE MapSet(ProjectHistory, name, << >>)
       IN /\ ProjectHistory' = stored
          /\ projectHistory' = [projectHistory EXCEPT ![r] = stored[name]]
          /\ IF update /\ name # NULL
             THEN /\ currentHistory' = [currentHistory EXCEPT ![r] = stored[name]]
                  /\ pc' = [pc EXCEPT ![r] = "Seeding"]
                  /\ UNCHANGED << tools, iter, attempt, slept, caught >>
             ELSE /\ currentHistory' =
                        [currentHistory EXCEPT ![r] = Append(stored[name], UserText(problem))]
                  /\ Continue(r)
                  /\ generateContent(r, update)
    /\ userProblem' = [userProblem EXCEPT ![r] = problem]
    /\ projectName' = [projectName EXCEPT ![r] = name]
    /\ isUpdate' = [isUpdate EXCEPT ![r] = update]
    /\ userId' = [userId EXCEPT ![r] = user]
    /\ purged' = purged \ {name}
    /\ overlapped' = [overlapped EXCEPT ![r] =
            { other \in Runs : pc[other] \in {"Seeding", "Generating", "Sleeping",
                                              "ToolDispatch"} }]
    /\ UNCHANGED << received, response, call, collaborator, handlerCalls, outcome,
                    writes >>
    /\ UNCHANGED << chatVars, apiVars >>

\* What storage holds for the project when an update reads it.
StoredFiles ==
    { << >>,
      SomeFiles,
      ("index.html" :> <<"<html>">>),
      ("index.html" :> <<"<html>">>) @@ ("style.css" :> << >>) }

\* What the storage did for the read of the existing files: it failed, it
\* found no file, or it found some.
readOutcome(env, files) ==
    IF env # "ok" THEN env ELSE IF DOMAIN files = {} THEN "noFiles" ELSE "ok"

\* The read of the existing files returns: the context turns, if any, and
\* then the request are appended.
seeded(r, env, files) ==
    /\ pc[r] = "Seeding"
    /\ LET existingFiles ==
               readProjectFiles(ArgsObject, userId[r], env, files).value
       IN currentHistory' =
              [currentHistory EXCEPT ![r] =
                  currentHistory[r] \o updateContext(projectName[r], existingFiles)
                                    \o << UserText(userProblem[r]) >>]
    /\ Continue(r)
    /\ generateContent(r, isUpdate[r])
    /\ collaborator' = [collaborator EXCEPT ![r] = readOutcome(env, files)]
    /\ UNCHANGED << ProjectHistory, userProblem, projectName, isUpdate, userId,
                    projectHistory, received, response, call, handlerCalls,
                    outcome, overlapped, writes, purged >>
    /\ UNCHANGED << chatVars, apiVars >>

\* generateContent rejects: the catch block of retryWithBackoff decides.
generateFailed(r, message) ==
    /\ pc[r] = "Generating"
    /\ LET error == Error(message, "generateContent", attempt[r])
           next == retryWithBackoff(attempt[r], maxRetries, baseDelay, error)
       IN /\ caught' = [caught EXCEPT ![r] = Append(caught[r], message)]
          /\ IF next.do = "sleep"
             THEN /\ pc' = [pc EXCEPT ![r] = "Sleeping"]
                  /\ slept' = [slept EXCEPT ![r] = Append(slept[r], next.delay)]
                  /\ UNCHANGED outcome
             ELSE /\ Fail(r, error)
                  /\ UNCHANGED slept
    /\ UNCHANGED << ProjectHistory, userProblem, projectName, isUpdate, userId,
                    projectHistory, currentHistory, tools, iter, attempt, received,
                    response, call, collaborator, handlerCalls, overlapped,
                    writes, purged >>
    /\ UNCHANGED << chatVars, apiVars >>

wakeUpMutC17(r) ==
    /\ pc[r] = "Sleeping"
    /\ pc' = [pc EXCEPT ![r] = "Generating"]
    /\ attempt' = [attempt EXCEPT ![r] = attempt[r] + 1]
    /\ currentHistory' = [currentHistory EXCEPT ![r] =
            Append(currentHistory[r], UserText(userProblem[r]))]
    /\ generateContent(r, isUpdate[r])
    /\ UNCHANGED << ProjectHistory, userProblem, projectName, isUpdate, userId,
                    projectHistory, iter, slept, caught, received,
                    response, call, collaborator, handlerCalls, outcome, overlapped,
                    writes, purged >>
    /\ UNCHANGED << chatVars, apiVars >>

\* The backoff delay is over: the next attempt calls generateContent again.
wakeUp(r) ==
    /\ pc[r] = "Sleeping"
    /\ pc' = [pc EXCEPT ![r] = "Generating"]
    /\ attempt' = [attempt EXCEPT ![r] = attempt[r] + 1]
    /\ generateContent(r, isUpdate[r])
    /\ UNCHANGED << ProjectHistory, userProblem, projectName, isUpdate, userId,
                    projectHistory, currentHistory, iter, slept, caught, received,
                    response, call, collaborator, handlerCalls, outcome, overlapped,
                    writes, purged >>
    /\ UNCHANGED << chatVars, apiVars >>

finalTurnsMutC7(history, text) == history

finalTurnsMutC16(history, text) == Append(Tail(history), ModelText(text))

finalTurnsMutC35(history, text) == Append(history, UserText(text))

\* The text answer: one model turn, the history stored, the text returned.
finalTurns(history, text) == Append(history, ModelText(text))

responseKindMutC22(resp) ==
    IF isMalformed(resp) THEN "malformed"
    ELSE IF Len(resp.functionCalls) > 1 THEN "functionCalls"
    ELSE "text"

\* The branch of the loop body a response takes.
responseKind(resp) ==
    IF isMalformed(resp) THEN "malformed"
    ELSE IF Len(resp.functionCalls) > 0 THEN "functionCalls"
    ELSE "text"

\* generateContent returns a response: the body of the loop up to its next
\* await (the handler) or to its end.
generateReturned(r, resp) ==
    /\ pc[r] = "Generating"
    /\ response' = [response EXCEPT ![r] = resp]
    /\ received' = [received EXCEPT ![r] = Append(received[r], responseKind(resp))]
    /\ IF responseKind(resp) = "malformed"
       THEN /\ currentHistory' = [currentHistory EXCEPT ![r] =
                    Append(currentHistory[r], malformedCorrection(projectName[r]))]
            /\ Continue(r)
            /\ generateContent(r, isUpdate[r])
            /\ UNCHANGED << ProjectHistory, call, handlerCalls, outcome >>
       ELSE IF responseKind(resp) = "functionCalls"
       THEN LET name == firstCall(resp).name
                verdict == policy(isUpdate[r], name)
            IN IF verdict = "rejectWriteToFile"
               THEN /\ currentHistory' = [currentHistory EXCEPT ![r] =
                            Append(currentHistory[r], writeToFileCorrection(projectName[r]))]
                    /\ Continue(r)
                    /\ generateContent(r, isUpdate[r])
                    /\ UNCHANGED << ProjectHistory, call, handlerCalls, outcome >>
               ELSE IF verdict = "rejectWrongTool"
               THEN /\ currentHistory' = [currentHistory EXCEPT ![r] =
                            Append(currentHistory[r], wrongToolCorrection(name))]
                    /\ Continue(r)
                    /\ generateContent(r, isUpdate[r])
                    /\ UNCHANGED << ProjectHistory, call, handlerCalls, outcome >>
               ELSE IF availableTools(name) = "undefined"
               THEN /\ Fail(r, Error("funCall is not a function", "dispatch", 0))
                    /\ UNCHANGED << ProjectHistory, currentHistory, tools, iter, attempt,
                                    slept, caught, call, handlerCalls >>
               ELSE /\ pc' = [pc EXCEPT ![r] = "ToolDispatch"]
                    /\ call' = [call EXCEPT ![r] = firstCall(resp)]
                    /\ handlerCalls' = [handlerCalls EXCEPT ![r] = Append(handlerCalls[r], name)]
                    /\ UNCHANGED << ProjectHistory, currentHistory, tools, iter, attempt,
                                    slept, caught, outcome >>
       ELSE LET responseText == extractResponseText(resp)
            IN IF responseText.threw
               THEN /\ Fail(r, Error(responseText.message, "extractResponseText", 0))
                    /\ UNCHANGED << ProjectHistory, currentHistory, tools, iter, attempt,
                                    slept, caught, call, handlerCalls >>
               ELSE LET history == finalTurns(currentHistory[r], responseText.value.text)
                    IN /\ currentHistory' = [currentHistory EXCEPT ![r] = history]
                       /\ ProjectHistory' = MapSet(ProjectHistory, projectName[r], history)
                       /\ pc' = [pc EXCEPT ![r] = "Done"]
                       /\ outcome' = [outcome EXCEPT ![r] =
                              [threw |-> FALSE, text |-> responseText.value.text,
                               error |-> Error("", "", 0)]]
                       /\ UNCHANGED << tools, iter, attempt, slept, caught, call, handlerCalls >>
    /\ UNCHANGED << userProblem, projectName, isUpdate, userId, projectHistory,
                    collaborator, overlapped, writes, purged >>
    /\ UNCHANGED << chatVars, apiVars >>

toolReturnedMutC14(r, env) ==
    /\ pc[r] = "ToolDispatch"
    /\ LET result == invoke(call[r].name, call[r].args, userId[r], env)
       IN IF result.threw
          THEN /\ Fail(r, Error(result.message, "handler", 0))
               /\ UNCHANGED << ProjectHistory, currentHistory, tools, iter, attempt,
                               slept, caught >>
          ELSE /\ currentHistory' = [currentHistory EXCEPT ![r] =
                       currentHistory[r] \o toolTurns(call[r], result.value)]
               /\ ProjectHistory' = MapSet(ProjectHistory, projectName[r],
                       currentHistory[r] \o toolTurns(call[r], result.value))
               /\ Continue(r)
               /\ generateContent(r, isUpdate[r])
               /\ UNCHANGED outcome
    /\ collaborator' = [collaborator EXCEPT ![r] = env]
    /\ writes' = [writes EXCEPT ![r] = @ \cup saveFile(call[r].name, call[r].args, env)]
    /\ UNCHANGED << userProblem, projectName, isUpdate, userId,
                    projectHistory, received, response, call, handlerCalls, overlapped,
                    purged >>
    /\ UNCHANGED << chatVars, apiVars >>

\* The handler settles: its result is recorded as a pair of turns and the
\* loop goes round, or its rejection leaves runAgent.
toolReturned(r, env) ==
    /\ pc[r] = "ToolDispatch"
    /\ LET result == invoke(call[r].name, call[r].args, userId[r], env)
       IN IF result.threw
          THEN /\ Fail(r, Error(result.message, "handler", 0))
               /\ UNCHANGED << currentHistory, tools, iter, attempt, slept, caught >>
          ELSE /\ currentHistory' = [currentHistory EXCEPT ![r] =
                       currentHistory[r] \o toolTurns(call[r], result.value)]
               /\ Continue(r)
               /\ generateContent(r, isUpdate[r])
               /\ UNCHANGED outcome
    /\ collaborator' = [collaborator EXCEPT ![r] = env]
    /\ writes' = [writes EXCEPT ![r] = @ \cup saveFile(call[r].name, call[r].args, env)]
    /\ UNCHANGED << ProjectHistory, userProblem, projectName, isUpdate, userId,
                    projectHistory, received, response, call, handlerCalls, overlapped,
                    purged >>
    /\ UNCHANGED << chatVars, apiVars >>

\* DELETE /api/projects/:projectName for a project of the user, when the
\* deletions in storage and in the database have succeeded: the entry of the
\* project is removed. (Every other path of the endpoint answers an error and
\* leaves the map alone.)
deleteProject(name) ==
    /\ ProjectHistory' = MapDelete(ProjectHistory, name)
    /\ purged' = purged \cup {name}
    /\ UNCHANGED << pc, userProblem, projectName, isUpdate, userId, projectHistory,
                    currentHistory, tools, iter, attempt, slept, caught, received,
                    response, call, collaborator, handlerCalls, outcome,
                    overlapped, writes >>
    /\ UNCHANGED << chatVars, apiVars >>

\* DELETE /api/projects/:projectName by a user: Project.findOne finds the
\* project of that name among the user's own (saved when the user's build
\* had returned), storage and database delete it, and the entry is removed.
apiDelete(user, name) ==
    /\ \E r \in Runs : /\ pc[r] = "Done" /\ ~isUpdate[r]
                        /\ userId[r] = user /\ projectName[r] = name
    /\ deleteProject(name)

\* -------------------------------------------- /api/build and /api/update

\* req.body of /api/build and /api/update; "" is a field that is missing.
ApiBody(description, name) == [description |-> description, projectName |-> name]

Overloaded == "The AI model is currently overloaded. Please try again in a few moments."
InvalidRequest == "Invalid request. Please check your input and try again."
QuotaExceeded == "API quota exceeded. Please try again later."

\* The catch block of both endpoints.
errorResponse(message) ==
    IF includes(message, "503") \/ includes(message, "UNAVAILABLE")
    THEN HttpResponse(503, FALSE, Overloaded, message, << >>)
    ELSE IF includes(message, "INVALID_ARGUMENT")
    THEN HttpResponse(400, FALSE, InvalidRequest, message, << >>)
    ELSE IF includes(message, "QUOTA_EXCEEDED")
    THEN HttpResponse(429, FALSE, QuotaExceeded, message, << >>)
    ELSE HttpResponse(500, FALSE, message, message, << >>)

DbErrorMessage == "connection timed out"

\* POST /api/build up to the await inside runAgent: the body is validated,
\* the name must be new to the user, and runAgent is called in create mode.
apiBuild(r, body, found, user) ==
    /\ pc[r] = "idle"
    /\ httpResponse[r] = NoHttpResponse
    /\ IF body.description = << >> \/ body.projectName = ""
       THEN /\ httpResponse' = [httpResponse EXCEPT ![r] =
                    HttpResponse(400, FALSE, "Description and project name are required",
                                 NULL, << >>)]
            /\ UNCHANGED << runVars, chatVars, retry >>
       ELSE IF found = "dbError"
       THEN /\ httpResponse' = [httpResponse EXCEPT ![r] = errorResponse(DbErrorMessage)]
            /\ UNCHANGED << runVars, chatVars, retry >>
       ELSE IF found = "found"
       THEN /\ httpResponse' = [httpResponse EXCEPT ![r] =
                    HttpResponse(400, FALSE, "Project already exists", NULL, << >>)]
            /\ UNCHANGED << runVars, chatVars, retry >>
       ELSE runAgentStart(r, body.description, body.projectName, FALSE, user)

\* POST /api/update up to the await inside runAgent: the body is validated,
\* the project must be one of the user's, and runAgent is called in update
\* mode.
apiUpdate(r, body, found, user) ==
    /\ pc[r] = "idle"
    /\ httpResponse[r] = NoHttpResponse
    /\ IF body.description = << >> \/ body.projectName = ""
       THEN /\ httpResponse' = [httpResponse EXCEPT ![r] =
                    HttpResponse(400, FALSE, "Description and project name are required",
                                 NULL, << >>)]
            /\ UNCHANGED << runVars, chatVars, retry >>
       ELSE IF found = "dbError"
       THEN /\ httpResponse' = [httpResponse EXCEPT ![r] = errorResponse(DbErrorMessage)]
            /\ UNCHANGED << runVars, chatVars, retry >>
       ELSE IF found = "none"
       THEN /\ httpResponse' = [httpResponse EXCEPT ![r] =
                    HttpResponse(404, FALSE, "Project not found", NULL, << >>)]
            /\ UNCHANGED << runVars, chatVars, retry >>
       ELSE runAgentStart(r, body.description, body.projectName, TRUE, user)

\* runAgent has settled inside either endpoint: its result is answered once
\* the project is saved, and its error, or the error of the save, is
\* answered by the catch block.
apiRespond(r, saved) ==
    /\ pc[r] \in {"Done", "Failed"}
    /\ httpResponse[r] = NoHttpResponse
    /\ httpResponse' = [httpResponse EXCEPT ![r] =
            IF outcome[r].threw THEN errorResponse(outcome[r].error.message)
            ELSE IF saved = "dbError" THEN errorResponse(DbErrorMessage)
            ELSE HttpResponse(200, TRUE, NULL, NULL, outcome[r].text)]
    /\ UNCHANGED << runVars, chatVars, retry >>

\* --------------------------------------------- retryWithBackoff on its own

\* retryWithBackoff(fn, maxRetries, baseDelay) is called: the loop starts
\* at attempt 1 and invokes fn, or has nothing to do.
retryStart(retries, delay0) ==
    /\ retry.pc = "idle"
    /\ retry' = IF 1 <= retries
                THEN [NoRetry EXCEPT !.pc = "Calling", !.maxRetries = retries,
                                     !.baseDelay = delay0, !.attempt = 1, !.invoked = 1]
                ELSE [NoRetry EXCEPT !.pc = "Returned", !.maxRetries = retries,
                                     !.baseDelay = delay0, !.attempt = 1,
                                     !.returned = UNDEFINED]
    /\ UNCHANGED << runVars, chatVars, httpResponse >>

\* fn rejects: the catch block decides.
operationFailed(message) ==
    /\ retry.pc = "Calling"
    /\ LET next == retryWithBackoff(retry.attempt, retry.maxRetries, retry.baseDelay,
                                    Error(message, "fn", retry.attempt))
       IN retry' = IF next.do = "sleep"
                   THEN [retry EXCEPT !.pc = "Sleeping",
                                      !.caught = Append(@, message),
                                      !.slept = Append(@, next.delay)]
                   ELSE [retry EXCEPT !.pc = "Threw",
                                      !.caught = Append(@, message),
                                      !.thrown = message]
    /\ UNCHANGED << runVars, chatVars, httpResponse >>

\* fn resolves: its value is returned.
operationReturned(value) ==
    /\ retry.pc = "Calling"
    /\ retry' = [retry EXCEPT !.pc = "Returned", !.returned = value]
    /\ UNCHANGED << runVars, chatVars, httpResponse >>

\* The delay is over: attempt++, and fn is invoked again while
\* attempt <= maxRetries; past that the function ends without a value.
retryWakeUp ==
    /\ retry.pc = "Sleeping"
    /\ retry' = IF retry.attempt + 1 <= retry.maxRetries
                THEN [retry EXCEPT !.pc = "Calling", !.attempt = @ + 1, !.invoked = @ + 1]
                ELSE [retry EXCEPT !.pc = "Returned", !.attempt = @ + 1,
                                   !.returned = UNDEFINED]
    /\ UNCHANGED << runVars, chatVars, httpResponse >>

\* ------------------------------------------------------------ chat sessions

\* if (sessionHistory.length > 20) sessionHistory = sessionHistory.slice(-20)
SessionCap == 20

\* seq.slice(-n)
slice(seq, n) ==
    IF Len(seq) <= n THEN seq ELSE SubSeq(seq, Len(seq) - n + 1, Len(seq))

\* { role, content }
Entry(role, content) == [role |-> role, content |-> content]

\* The arrays the map or a request in flight refers to.
Referenced(chat, refs) ==
    ({ chat[u] : u \in DOMAIN chat } \cup { refs[q] : q \in Requests }) \ {NoArray}

\* A new array ([] or the result of slice).
NewArray(chat, refs) == CHOOSE a \in ArrayIds : a \notin Referenced(chat, refs)

\* An array nothing refers to any more is gone.
Collect(heap, chat, refs) ==
    [a \in ArrayIds |-> IF a \in Referenced(chat, refs) THEN heap[a] ELSE << >>]

\* The words of updatePatterns, in order.
UpdatePatterns == << "update", "modify", "change", "edit", "improve", "fix" >>

RECURSIVE firstCapture(_, _, _)
\* The word captured by the first of the patterns from the k-th on that
\* matches, or null.
firstCapture(message, lower, k) ==
    IF k > Len(UpdatePatterns) THEN NULL
    ELSE LET word == capture(message, lower, UpdatePatterns[k], Whitespace)
         IN IF word # NULL THEN word ELSE firstCapture(message, lower, k + 1)

extractProjectNameMutC30(message, availableProjects) ==
    LET lowerMessage == toLowerCase(message)
        mentioned == { i \in 1..Len(availableProjects) :
                         includes(lowerMessage, toLowerCase(availableProjects[i])) }
    IN IF mentioned # {}
       THEN availableProjects[CHOOSE i \in mentioned : \A j \in mentioned : i >= j]
       ELSE firstCapture(message, lowerMessage, 1)

\* extractProjectName(message, availableProjects): the first project of the
\* list whose name the message contains, else the word the first matching
\* update pattern captures, else null.
extractProjectName(message, availableProjects) ==
    LET lowerMessage == toLowerCase(message)
        mentioned == { i \in 1..Len(availableProjects) :
                         includes(lowerMessage, toLowerCase(availableProjects[i])) }
    IN IF mentioned # {}
       THEN availableProjects[CHOOSE i \in mentioned : \A j \in mentioned : i <= j]
       ELSE firstCapture(message, lowerMessage, 1)

\* ------------------------------------------------------- handleChatMessage

BuildPhrases ==
    { "build website", "create website", "new website", "start a website",
      "make a website", "build a site", "create a site" }
ShowPhrases ==
    { "show", "my projects", "list projects", "see my websites", "what projects",
      "display projects" }
UpdatePhrases == { "update", "modify", "change", "edit", "improve", "fix" }
DeployPhrases ==
    { "deploy", "publish", "go live", "put online", "vercel", "host", "upload",
      "make live" }
GreetingPhrases ==
    { "hi", "hello", "hey", "good morning", "good afternoon", "good evening" }
FarewellPhrases ==
    { "thanks", "thank you", "bye", "goodbye", "see you", "appreciate" }

includesAny(str, phrases) == \E phrase \in phrases : includes(str, phrase)

\* The chain of tests on lowerMessage that sets action.
action(message) ==
    LET lowerMessage == toLowerCase(message)
    IN IF includesAny(lowerMessage, BuildPhrases) THEN "create_project"
       ELSE IF includesAny(lowerMessage, ShowPhrases) THEN "show_projects"
       ELSE IF includesAny(lowerMessage, UpdatePhrases) THEN "update_project"
       ELSE IF includesAny(lowerMessage, DeployPhrases) THEN "deploy_project"
       ELSE IF includesAny(lowerMessage, GreetingPhrases) THEN "general_response"
       ELSE IF includesAny(lowerMessage, FarewellPhrases) THEN "general_response"
       ELSE "general_response"

\* The name a create_project answer carries: what the model's text says
\* after "project", "suggest" or "name".
projectMatch(responseText) ==
    LET seps == {":"} \cup Whitespace
        lower == toLowerCase(responseText)
        project == capture(responseText, lower, "project", seps)
        suggest == capture(responseText, lower, "suggest", seps)
    IN IF project # NULL THEN project
       ELSE IF suggest # NULL THEN suggest
       ELSE capture(responseText, lower, "name", seps)

\* What handleChatMessage returns.
Reply(text, act, name) == [text |-> text, action |-> act, projectName |-> name]

\* handleChatMessage(context), given what generateContent and
\* extractResponseText yield: the model's text with the action of the
\* message, or the fallback of the catch block.
handleChatMessage(message, generated) ==
    LET fallback ==
            Reply(<< "I'm sorry, I'm having trouble processing your request right now." >>,
                  "general_response", NULL)
    IN
    IF generated.threw
    THEN fallback
    ELSE LET responseText == generated.value.text
         IN IF action(message) # "create_project"
            THEN Reply(responseText, action(message), NULL)
            ELSE IF responseText = UNDEFINED
            THEN fallback
            ELSE Reply(responseText, "create_project",
                       projectMatch(IF responseText = << >> THEN "" ELSE responseText[1]))

\* Bodies of chat requests: a greeting, a request naming the project "site",
\* a request naming a project "shop" the user does not have, a message that
\* is not a string, and no message.
Hello == Message("string", << "hello" >>, NULL)
UpdateSite == Message("string", << "update site" >>, NULL)

ChatBodies ==
    { Hello, UpdateSite, Message("string", << "update shop" >>, NULL),
      Message("other", << "42" >>, NULL), NoMessage }

\* What Project.find yields for the user.
ProjectLists == { << >>, << "site" >> }

\* What generateContent and extractResponseText yield inside
\* handleChatMessage: the model's text, or a failure.
Replies == { Returned(Str(<< "reply" >>)), Threw("503 Service Unavailable") }

\* Bodies whose messages meet the keyword sets in different ways: a phrase
\* of the first set, keywords of two sets, several update patterns, a
\* keyword of the fourth set, and two project names.
EditBoth == Message("string", << "edit site and shop" >>, NULL)

IntentBodies ==
    { Message("string", << "Build website for my shop" >>, NULL),
      Message("string", << "show me how to update site" >>, NULL),
      Message("string", << "fix and Update Shop" >>, NULL),
      Message("string", << "deploy it" >>, NULL),
      EditBoth, Hello }

IntentLists == { << >>, << "site" >>, << "Shop", "site" >> }

IntentReplies ==
    { Returned(Str(<< "reply" >>)),
      Returned(Str(<< "Suggested project: shop-1" >>)),
      Threw("503 Service Unavailable") }

\* extractProjectName and handleChatMessage applied to the inputs above,
\* evaluated once.
MessageTexts ==
    { body.text[1] : body \in { b \in ChatBodies \cup IntentBodies : b.kind = "string" } }

mentionedProjectOf ==
    [message \in MessageTexts |->
        [availableProjects \in ProjectLists \cup IntentLists |->
            extractProjectName(message, availableProjects)]]

responseOf ==
    [message \in MessageTexts |->
        [generated \in Replies \cup IntentReplies |->
            handleChatMessage(message, generated)]]

\* ---------------------------------------------------------------- /api/chat

\* ChatHistory.get(userId): the entries of the user's stored session, none
\* when there is no session.
Stored(user) == IF user \in DOMAIN ChatHistory THEN arrays[ChatHistory[user]] ELSE << >>

\* The request ends: its reference to the array is dropped.
Respond(q, answer, chat, heap) ==
    /\ chatPc' = [chatPc EXCEPT ![q] = "idle"]
    /\ chatResponse' = [chatResponse EXCEPT ![q] = answer]
    /\ sessionHistory' = [sessionHistory EXCEPT ![q] = NoArray]
    /\ storedAtStart' = [storedAtStart EXCEPT ![q] = << >>]
    /\ ChatHistory' = chat
    /\ arrays' = Collect(heap, chat, [sessionHistory EXCEPT ![q] = NoArray])

\* POST /api/chat up to its first await: a request without a message is
\* answered 400; otherwise the user's stored array, or a new one, gets the
\* message pushed and Project.find is awaited.
chatStart(q, user, body) ==
    /\ chatPc[q] = "idle"
    /\ IF body.kind = "missing"
       THEN /\ chatResponse' = [chatResponse EXCEPT ![q] =
                    ChatResponse(400, << >>, NULL, NULL)]
            /\ UNCHANGED << ChatHistory, arrays, chatPc, chatRequest, sessionHistory,
                            chatLog, storedAtStart >>
       ELSE LET ref == IF user \in DOMAIN ChatHistory
                       THEN ChatHistory[user]
                       ELSE NewArray(ChatHistory, sessionHistory)
            IN /\ arrays' = [arrays EXCEPT ![ref] = Append(@, Entry("user", body.text))]
               /\ sessionHistory' = [sessionHistory EXCEPT ![q] = ref]
               /\ chatLog' = [chatLog EXCEPT ![user] = Append(@, Entry("user", body.text))]
               /\ chatRequest' = [chatRequest EXCEPT ![q] = ChatRequest(user, body)]
               /\ chatPc' = [chatPc EXCEPT ![q] = "FindingProjects"]
               /\ storedAtStart' = [storedAtStart EXCEPT ![q] = Stored(user)]
               /\ UNCHANGED << ChatHistory, chatResponse >>
    /\ UNCHANGED context
    /\ UNCHANGED << runVars, apiVars >>

\* Project.find has settled (a rejection leaves availableProjects empty):
\* the project files are read, or the request returns early because the
\* message names an unknown project, or handleChatMessage is called; a
\* message that is no string makes extractProjectName throw into the catch.
projectsFound(q, availableProjects) ==
    /\ chatPc[q] = "FindingProjects"
    /\ LET body == chatRequest[q].body
           mentionedProject == mentionedProjectOf[body.text[1]][availableProjects]
           currentProject == IF mentionedProject # NULL
                             THEN mentionedProject ELSE body.currentProject
           known == { availableProjects[i] : i \in 1..Len(availableProjects) }
       IN IF body.kind # "string"
          THEN /\ Respond(q, ChatResponse(500, << "message.toLowerCase is not a function" >>,
                                          NULL, NULL),
                          ChatHistory, arrays)
               /\ context' = [context EXCEPT ![q] = Context(NULL, NULL, availableProjects)]
               /\ UNCHANGED << chatRequest, chatLog >>
          ELSE /\ context' = [context EXCEPT ![q] =
                       Context(mentionedProject, currentProject, availableProjects)]
               /\ IF currentProject # NULL /\ currentProject \in known
                  THEN /\ chatPc' = [chatPc EXCEPT ![q] = "ReadingFiles"]
                       /\ UNCHANGED << ChatHistory, arrays, chatRequest, sessionHistory,
                                       chatLog, chatResponse, storedAtStart >>
                  ELSE IF mentionedProject # NULL /\ mentionedProject \notin known
                  THEN /\ Respond(q, ChatResponse(200, << "I couldn't find a project named",
                                                         mentionedProject >>,
                                                  "show_projects", NULL),
                                  ChatHistory, arrays)
                       /\ UNCHANGED << chatRequest, chatLog >>
                  ELSE /\ chatPc' = [chatPc EXCEPT ![q] = "Chatting"]
                       /\ UNCHANGED << ChatHistory, arrays, chatRequest, sessionHistory,
                                       chatLog, chatResponse, storedAtStart >>
    /\ UNCHANGED << runVars, apiVars >>

\* storage.getProjectFiles has settled (a rejection is logged):
\* handleChatMessage is called.
filesRead(q) ==
    /\ chatPc[q] = "ReadingFiles"
    /\ chatPc' = [chatPc EXCEPT ![q] = "Chatting"]
    /\ UNCHANGED << ChatHistory, arrays, chatRequest, sessionHistory, chatLog,
                    chatResponse, context, storedAtStart >>
    /\ UNCHANGED << runVars, apiVars >>

\* handleChatMessage has returned, generateContent having yielded a text or
\* failed: the reply is pushed, the array is cut to its last 20 entries when
\* it is longer, and stored.
chatAnswered(q, generated) ==
    /\ chatPc[q] = "Chatting"
    /\ LET user == chatRequest[q].userId
           ref == sessionHistory[q]
           reply == responseOf[chatRequest[q].body.text[1]][generated]
           answer == ChatResponse(200, reply.text, reply.action,
                                  reply.projectName)
           pushed == Append(arrays[ref], Entry("model", reply.text))
           cut == NewArray(ChatHistory, sessionHistory)
       IN /\ IF Len(pushed) > SessionCap
             THEN Respond(q, answer, MapSet(ChatHistory, user, cut),
                          [arrays EXCEPT ![ref] = pushed, ![cut] = slice(pushed, SessionCap)])
             ELSE Respond(q, answer, MapSet(ChatHistory, user, ref),
                          [arrays EXCEPT ![ref] = pushed])
          /\ chatLog' = [chatLog EXCEPT ![user] = Append(@, Entry("model", reply.text))]
    /\ UNCHANGED << chatRequest, context >>
    /\ UNCHANGED << runVars, apiVars >>

\* POST /api/chat/clear
chatClear(user) ==
    /\ ChatHistory' = MapDelete(ChatHistory, user)
    /\ arrays' = Collect(arrays, MapDelete(ChatHistory, user), sessionHistory)
    /\ chatLog' = [chatLog EXCEPT ![user] = << >>]
    /\ UNCHANGED << chatPc, chatRequest, sessionHistory, chatResponse, context,
                    storedAtStart >>
    /\ UNCHANGED << runVars, apiVars >>

\* ----------------------------------------------------------- specification

\* Every response generateContent can return.
Responses == TextResponses \cup ShapeResponses \cup {MalformedResponse} \cup CallResponses

\* One invocation of runAgent against every behaviour of the model backend
\* and of the collaborators.
Next ==
    \/ \E problem \in UserProblems, arguments \in RunArguments, user \in UserIds :
          runAgentStart("run1", problem, arguments.name, arguments.update, user)
    \/ \E env \in {"ok", "storageError"}, files \in StoredFiles :
          seeded("run1", env, files)
    \/ \E message \in ErrorMessages : generateFailed("run1", message)
    \/ wakeUp("run1")
    \/ \E resp \in Responses :
          /\ responseKind(resp) # "text" => iter["run1"] < MaxIter
          /\ generateReturned("run1", resp)
    \/ \E env \in CollaboratorOutcomes(call["run1"].name) : toolReturned("run1", env)

Spec == Init /\ [][Next]_vars

\* The creation of a site when nothing fails: the model asks for declared
\* tools, one call per response with its arguments, and then answers; the
\* collaborators succeed.
CreateResponses ==
    TextResponses \cup
    { resp \in CallResponses :
        /\ Len(resp.functionCalls) = 1
        /\ resp.functionCalls[1].name \in ToolNameSet
        /\ resp.functionCalls[1].args.present }

NextCreate ==
    \/ \E problem \in UserProblems, user \in UserIds :
          runAgentStart("run1", problem, "site", FALSE, user)
    \/ \E resp \in CreateResponses :
          /\ responseKind(resp) # "text" => iter["run1"] < MaxIterCreate
          /\ generateReturned("run1", resp)
    \/ toolReturned("run1", "ok")

SpecCreate == Init /\ [][NextCreate]_vars

\* Two invocations of runAgent for one project, as two overlapping requests
\* to /api/build or /api/update start them, and the deletion of the project.
\* Each request has its own description; the model answers, asks to read
\* the files or asks to write one, and generateContent can fail either way.
TwoProblems == [run1 |-> << "make a portfolio site" >>, run2 |-> << "make the header blue" >>]

TwoResponses ==
    { resp \in TextResponses : resp.text = << "Done" >> }
    \cup
    { resp \in CallResponses :
        /\ Len(resp.functionCalls) = 1
        /\ resp.functionCalls[1].name \in {"readProjectFiles", "writeToFile"}
        /\ resp.functionCalls[1].args.present }

TwoErrors == { "503 Service Unavailable", "400 INVALID_ARGUMENT" }

NextTwo ==
    \/ \E r \in Runs, update \in BOOLEAN, user \in UserIds :
          runAgentStart(r, TwoProblems[r], "site", update, user)
    \/ \E r \in Runs, files \in {SomeFiles, << >>} : seeded(r, "ok", files)
    \/ \E r \in Runs, message \in TwoErrors : generateFailed(r, message)
    \/ \E r \in Runs : wakeUp(r)
    \/ \E r \in Runs, resp \in TwoResponses :
          /\ responseKind(resp) # "text" => iter[r] < MaxIterTwo
          /\ generateReturned(r, resp)
    \/ \E r \in Runs : toolReturned(r, "ok")
    \/ deleteProject("site")

SpecTwo == Init /\ [][NextTwo]_vars

\* Chat requests of one user: the requests that can be in flight together,
\* the bodies they carry, the project lists the database yields and the
\* texts they are answered with.
NextChat(requests, bodies, lists, replies, maxLog) ==
    \/ \E q \in requests, user \in UserIds, body \in bodies :
          /\ body.kind # "missing" =>
                /\ Len(chatLog[user]) < maxLog
                /\ user \in DOMAIN ChatHistory => Len(arrays[ChatHistory[user]]) < maxLog
          /\ chatStart(q, user, body)
    \/ \E q \in requests, availableProjects \in lists :
          projectsFound(q, availableProjects)
    \/ \E q \in requests : filesRead(q)
    \/ \E q \in requests, generated \in replies : chatAnswered(q, generated)

\* Two chat requests of one user that may overlap.
SpecChat == Init /\ [][NextChat(Requests, ChatBodies, ProjectLists, Replies, MaxChatLog)]_vars

\* Two chat requests of one user whose messages meet the keyword sets and
\* the project names in every way.
SpecIntent ==
    Init /\ [][NextChat(Requests, IntentBodies, IntentLists, IntentReplies, MaxIntentLog)]_vars

\* The same requests, and the clearing of the user's session.
NextChatClear ==
    \/ NextChat(Requests, {Hello, UpdateSite}, ProjectLists, {Returned(Str(<< "reply" >>))}, MaxChatLog)
    \/ \E user \in UserIds : chatClear(user)

SpecChatClear == Init /\ [][NextChatClear]_vars

\* One chat request at a time about the project "site", which the user has
\* or has not, long enough for a session to fill up.
SpecChatLong ==
    Init /\ [][NextChat({"q1"}, {UpdateSite}, ProjectLists, {Returned(Str(<< "reply" >>))}, MaxChatLogLong)]_vars

\* The same, when every pending await settles in the end.
SpecTwoFair == SpecTwo /\ WF_vars(NextTwo)

\* Two users who each build a project named "site" (the name is unique per
\* user only), and delete their own.
TwoUsers == [run1 |-> "u1", run2 |-> "u2"]

NextUsers ==
    \/ \E r \in Runs : runAgentStart(r, TwoProblems[r], "site", FALSE, TwoUsers[r])
    \/ \E r \in Runs, message \in TwoErrors : generateFailed(r, message)
    \/ \E r \in Runs : wakeUp(r)
    \/ \E r \in Runs, resp \in TwoResponses :
          /\ responseKind(resp) # "text" => iter[r] < MaxIterTwo
          /\ generateReturned(r, resp)
    \/ \E r \in Runs : toolReturned(r, "ok")
    \/ \E r \in Runs : apiDelete(TwoUsers[r], "site")

SpecUsers == Init /\ [][NextUsers]_vars

\* One run for the project "site", in either mode, whose model asks for the
\* two tools that save files, naming "site" or another project, or reads
\* the files, or answers.
WriteResponses ==
    { resp \in TextResponses : resp.text = << "Done" >> }
    \cup
    { Response(<<>>, << Candidate("STOP", TRUE, TRUE, << OtherPart >>, <<>>) >>,
               << FunctionCall(n, args) >>)
        : n \in {"writeToFile", "updateProjectFiles", "readProjectFiles"},
          args \in {ArgsObject, ArgsOther} }

NextWrites ==
    \/ \E problem \in UserProblems, update \in BOOLEAN, user \in UserIds :
          runAgentStart("run1", problem, "site", update, user)
    \/ \E files \in {SomeFiles, << >>} : seeded("run1", "ok", files)
    \/ \E resp \in WriteResponses :
          /\ responseKind(resp) # "text" => iter["run1"] < MaxIterWrites
          /\ generateReturned("run1", resp)
    \/ \E env \in CollaboratorOutcomes(call["run1"].name) : toolReturned("run1", env)

SpecWrites == Init /\ [][NextWrites]_vars

\* One request to /api/build or /api/update, against every behaviour of the
\* model backend, of the collaborators and of the database.
\* Project.findOne finds no project, finds one, or rejects.
NextApi ==
    \/ \E d \in UserProblems \cup {<< >>}, n \in {"site", ""},
          found \in {"none", "found", "dbError"}, user \in UserIds :
          apiBuild("run1", ApiBody(d, n), found, user)
    \/ \E d \in UserProblems \cup {<< >>}, n \in {"site", ""},
          found \in {"none", "found", "dbError"}, user \in UserIds :
          apiUpdate("run1", ApiBody(d, n), found, user)
    \/ \E env \in {"ok", "storageError"}, files \in {SomeFiles, << >>} :
          seeded("run1", env, files)
    \/ \E message \in ErrorMessages : generateFailed("run1", message)
    \/ wakeUp("run1")
    \/ \E resp \in Responses :
          /\ responseKind(resp) # "text" => iter["run1"] < MaxIterApi
          /\ generateReturned("run1", resp)
    \/ \E env \in CollaboratorOutcomes(call["run1"].name) : toolReturned("run1", env)
    \/ \E saved \in {"ok", "dbError"} : apiRespond("run1", saved)

SpecApi == Init /\ [][NextApi]_vars

\* One call of retryWithBackoff with every maxRetries from 1 to the bound,
\* the default base delay or another one, and an operation that resolves or
\* rejects with any of the messages at each invocation.
FnResults == { << "response" >>, << "result" >> }

NextRetry ==
    \/ \E retries \in 1..MaxRetriesArg, delay0 \in {1000, 500} :
          retryStart(retries, delay0)
    \/ \E message \in ErrorMessages : operationFailed(message)
    \/ \E value \in FnResults : operationReturned(value)
    \/ retryWakeUp

SpecRetry == Init /\ [][NextRetry]_vars

\* ------------------------------------------------------------------ claims

Last(seq) == seq[Len(seq)]
Range(seq) == { seq[i] : i \in 1..Len(seq) }

\* The step in which run r receives a response of the given kind.
JustReceived(r, kind) ==
    /\ Len(received'[r]) = Len(received[r]) + 1
    /\ Last(received'[r]) = kind

CallName(turn) == turn.parts[1].functionCall.name
ResponseName(turn) == turn.parts[1].functionResponse.name

\* Every functionCall turn is directly followed by the functionResponse turn
\* of the same name, and no functionResponse turn stands anywhere else.
Paired(history) ==
    \A i \in 1..Len(history) :
        /\ IsCallTurn(history[i]) =>
              /\ i < Len(history)
              /\ IsResponseTurn(history[i + 1])
              /\ ResponseName(history[i + 1]) = CallName(history[i])
        /\ IsResponseTurn(history[i]) =>
              /\ i > 1
              /\ IsCallTurn(history[i - 1])

\* C1: in every history stored in ProjectHistory, and in the history of every
\* completed run, each model functionCall turn is immediately followed by
\* exactly one user functionResponse turn for that call.
C1_TurnPairing ==
    /\ \A name \in DOMAIN ProjectHistory : Paired(ProjectHistory[name])
    /\ \A r \in Runs : pc[r] = "Done" => Paired(currentHistory[r])

\* A completed run that stored a tool call after a correction.
C1_Witness ==
    \E r \in Runs :
        /\ pc[r] = "Done"
        /\ Len(handlerCalls[r]) = 1
        /\ Len(received[r]) = 3
        /\ \E i \in 1..Len(ProjectHistory[projectName[r]]) :
              IsCallTurn(ProjectHistory[projectName[r]][i])

UpdateTools == {"updateProjectFiles", "readProjectFiles", "listProjects"}

\* C2: in an update, a request for a tool other than updateProjectFiles,
\* readProjectFiles and listProjects runs no handler, appends exactly one user
\* text turn and no model turn, and sends the loop back to Generating; the
\* mode of a started run never changes.
C2_UpdatePolicy ==
    [][\A r \in Runs :
         /\ (/\ JustReceived(r, "functionCalls")
             /\ isUpdate[r]
             /\ response'[r].functionCalls[1].name \notin UpdateTools)
            => /\ handlerCalls'[r] = handlerCalls[r]
               /\ Len(currentHistory'[r]) = Len(currentHistory[r]) + 1
               /\ SubSeq(currentHistory'[r], 1, Len(currentHistory[r])) = currentHistory[r]
               /\ Last(currentHistory'[r]).role = "user"
               /\ IsTextTurn(Last(currentHistory'[r]))
               /\ pc'[r] = "Generating"
               /\ isUpdate'[r]
         /\ pc[r] # "idle" => isUpdate'[r] = isUpdate[r]
      ]_vars

\* An update that was asked for deployProject and went back to Generating
\* without running a handler.
C2_Witness ==
    \E r \in Runs :
        /\ isUpdate[r]
        /\ pc[r] = "Generating"
        /\ received[r] = << "functionCalls" >>
        /\ response[r].functionCalls[1].name = "deployProject"
        /\ handlerCalls[r] = << >>

AllTransient(messages) == \A i \in 1..Len(messages) : Includes503(messages[i])

\* C3: with maxRetries = 3, an operation that fails with the transient marker
\* every time is invoked exactly 3 times, with sleeps of baseDelay and
\* 2 * baseDelay and none after the third failure, and the third failure is
\* the one thrown.
C3_RetryBoundary ==
    \A r \in Runs :
        /\ Len(caught[r]) <= maxRetries
        /\ attempt[r] <= maxRetries
        /\ (Len(caught[r]) = maxRetries /\ AllTransient(caught[r])) =>
              /\ pc[r] = "Failed"
              /\ attempt[r] = 3
              /\ slept[r] = << baseDelay, 2 * baseDelay >>
              /\ outcome[r].threw
              /\ outcome[r].error = Error(caught[r][3], "generateContent", 3)

\* Three transient failures in one call of retryWithBackoff.
C3_Witness ==
    \E r \in Runs : Len(caught[r]) = 3 /\ AllTransient(caught[r])

\* C4: a failure that is not transient is the last one of its call of
\* retryWithBackoff: it is thrown on the attempt that raised it, with no sleep
\* after it and no further attempt; when it is the first failure the
\* operation has been invoked once.
C4_FailFast ==
    \A r \in Runs : \A i \in 1..Len(caught[r]) :
        ~Includes503(caught[r][i]) =>
            /\ i = Len(caught[r])
            /\ pc[r] = "Failed"
            /\ outcome[r].threw
            /\ outcome[r].error = Error(caught[r][i], "generateContent", i)
            /\ attempt[r] = i
            /\ Len(slept[r]) = i - 1

\* A non-transient failure on the second attempt, after one transient one.
C4_Witness ==
    \E r \in Runs :
        /\ Len(caught[r]) = 2
        /\ Includes503(caught[r][1])
        /\ caught[r][2] = "429 QUOTA_EXCEEDED"
        /\ pc[r] = "Failed"

\* The text a response answers with: its text getter, or what
\* extractResponseText finds in its first candidate.
AnswerOf(resp) ==
    IF resp.text # << >> THEN resp.text ELSE extractResponseText(resp).value.text

\* C5: a create-mode run that found no stored history and received no
\* malformed response returns the answer text, and stores 1 + 2k + 1 turns
\* for its k tool requests: the request, the k call/response pairs in request
\* order, the model text.
C5_HappyPathCreate ==
    \A r \in Runs :
        (/\ pc[r] = "Done"
         /\ ~isUpdate[r]
         /\ projectHistory[r] = << >>
         /\ "malformed" \notin Range(received[r]))
        => LET k == Len(received[r]) - 1
               stored == ProjectHistory[projectName[r]]
           IN /\ ~outcome[r].threw
              /\ outcome[r].text = AnswerOf(response[r])
              /\ Len(handlerCalls[r]) = k
              /\ Len(stored) = 1 + 2 * k + 1
              /\ stored[1] = UserText(userProblem[r])
              /\ \A i \in 1..k :
                    /\ IsCallTurn(stored[2 * i])
                    /\ CallName(stored[2 * i]) = handlerCalls[r][i]
                    /\ IsResponseTurn(stored[2 * i + 1])
                    /\ ResponseName(stored[2 * i + 1]) = handlerCalls[r][i]
              /\ stored[2 * k + 2] = ModelText(outcome[r].text)

\* A create-mode run that wrote three files and answered "Done": 8 turns.
C5_Witness ==
    \E r \in Runs :
        /\ pc[r] = "Done"
        /\ ~isUpdate[r]
        /\ handlerCalls[r] = << "writeToFile", "writeToFile", "writeToFile" >>
        /\ outcome[r].text = << "Done" >>
        /\ Len(ProjectHistory[projectName[r]]) = 8

\* The backend flagged the first candidate as a malformed function call.
FlaggedMalformed(resp) ==
    /\ Len(resp.candidates) > 0
    /\ resp.candidates[1].finishReason = "MALFORMED_FUNCTION_CALL"

\* C6: a malformed response makes the run neither fail nor retry: exactly one
\* user text turn is appended, and the loop starts a new retryWithBackoff call
\* at attempt 1; a run that received m malformed responses and then a text
\* answer ends with the request, m corrective turns and the answer, and
\* returns the answer.
C6_MalformedRecovery ==
    /\ [][\A r \in Runs :
            (/\ Len(received'[r]) = Len(received[r]) + 1
             /\ FlaggedMalformed(response'[r]))
            => /\ currentHistory'[r] =
                     Append(currentHistory[r], malformedCorrection(projectName[r]))
               /\ pc'[r] = "Generating"
               /\ attempt'[r] = 1
               /\ slept'[r] = << >>
               /\ caught'[r] = << >>
               /\ iter'[r] = iter[r] + 1
               /\ handlerCalls'[r] = handlerCalls[r]
               /\ ~outcome'[r].threw
        ]_vars
    /\ [](\A r \in Runs :
            LET m == Len(received[r]) - 1
                h == currentHistory[r]
                n == Len(currentHistory[r])
            IN (/\ m >= 1
                /\ Last(received[r]) = "text"
                /\ \A i \in 1..m : received[r][i] = "malformed"
                /\ ~extractResponseText(response[r]).threw)
               => /\ pc[r] = "Done"
                  /\ ~outcome[r].threw
                  /\ outcome[r].text = AnswerOf(response[r])
                  /\ n >= m + 2
                  /\ h[n - m - 1] = UserText(userProblem[r])
                  /\ \A i \in (n - m)..(n - 1) : h[i] = malformedCorrection(projectName[r])
                  /\ h[n] = ModelText(outcome[r].text))

\* One malformed response, then the answer "ok".
C6_Witness ==
    \E r \in Runs :
        /\ pc[r] = "Done"
        /\ received[r] = << "malformed", "text" >>
        /\ outcome[r].text = << "ok" >>

\* C7: a text answer appends exactly one model text turn with that text,
\* stores the run's whole history under its project and returns that text;
\* from then on the run takes no step.
C7_TextAnswer ==
    [][\A r \in Runs :
         /\ (JustReceived(r, "text") /\ ~extractResponseText(response'[r]).threw)
            => /\ currentHistory'[r] =
                     Append(currentHistory[r], ModelText(AnswerOf(response'[r])))
               /\ projectName[r] \in DOMAIN ProjectHistory'
               /\ ProjectHistory'[projectName[r]] = currentHistory'[r]
               /\ pc'[r] = "Done"
               /\ ~outcome'[r].threw
               /\ outcome'[r].text = AnswerOf(response'[r])
         /\ pc[r] = "Done"
            => /\ pc'[r] = "Done"
               /\ received'[r] = received[r]
               /\ caught'[r] = caught[r]
               /\ attempt'[r] = attempt[r]
               /\ handlerCalls'[r] = handlerCalls[r]
               /\ currentHistory'[r] = currentHistory[r]
      ]_vars

\* A run that answered "Done" after a tool call and stored its history.
C7_Witness ==
    \E r \in Runs :
        /\ pc[r] = "Done"
        /\ outcome[r].text = << "Done" >>
        /\ Len(handlerCalls[r]) = 1
        /\ Last(ProjectHistory[projectName[r]]) = ModelText(<< "Done" >>)

\* A value that describes an error: an "Error" string, or an object with an
\* error property.
DescribesError(value) ==
    \/ value.typeof = "string" /\ Len(value.text) > 0 /\ value.text[1] = "Error"
    \/ value.typeof = "object" /\ "error" \in DOMAIN value.props

UnexpectedShape ==
    { "Unexpected candidate structure from AI", "Unexpected response format from AI" }

C10_UnknownTool ==
    \A r \in Runs :
        (/\ ~isUpdate[r]
         /\ pc[r] # "idle"
         /\ Len(received[r]) > 0
         /\ Last(received[r]) = "functionCalls"
         /\ response[r].functionCalls[1].name \notin ToolNameSet)
        => /\ pc[r] = "Failed"
           /\ outcome[r].error.from = "dispatch"
           /\ response[r].functionCalls[1].name \notin Range(handlerCalls[r])
           /\ \A i \in 1..Len(currentHistory[r]) :
                 IsCallTurn(currentHistory[r][i]) =>
                     CallName(currentHistory[r][i]) # response[r].functionCalls[1].name

\* C11: of a response that carries several function calls only the first is
\* honoured: the handler of the first call is the only one that runs for it,
\* the pair appended once that handler has returned is the pair of the first
\* call, and no turn ever records one of the other calls.
C11_FirstCallOnly ==
    [][\A r \in Runs :
         /\ (/\ Len(received'[r]) = Len(received[r]) + 1
             /\ Len(response'[r].functionCalls) > 1)
            => /\ currentHistory'[r] = currentHistory[r]
                  \/ /\ Len(currentHistory'[r]) = Len(currentHistory[r]) + 1
                     /\ IsTextTurn(Last(currentHistory'[r]))
                     /\ handlerCalls'[r] = handlerCalls[r]
               /\ \/ handlerCalls'[r] = handlerCalls[r]
                  \/ /\ handlerCalls'[r] =
                            Append(handlerCalls[r], response'[r].functionCalls[1].name)
                     /\ call'[r] = response'[r].functionCalls[1]
                     /\ pc'[r] = "ToolDispatch"
               /\ (/\ policy(isUpdate[r], response'[r].functionCalls[1].name) = "dispatch"
                   /\ availableTools(response'[r].functionCalls[1].name) # "undefined")
                  => Len(handlerCalls'[r]) = Len(handlerCalls[r]) + 1
         /\ (/\ pc[r] = "ToolDispatch"
             /\ pc'[r] = "Generating"
             /\ Len(response[r].functionCalls) > 1)
            => /\ handlerCalls'[r] = handlerCalls[r]
               /\ Len(currentHistory'[r]) = Len(currentHistory[r]) + 2
               /\ SubSeq(currentHistory'[r], 1, Len(currentHistory[r])) = currentHistory[r]
               /\ currentHistory'[r][Len(currentHistory[r]) + 1] =
                     ModelCall(response[r].functionCalls[1])
               /\ IsResponseTurn(Last(currentHistory'[r]))
               /\ ResponseName(Last(currentHistory'[r])) = response[r].functionCalls[1].name
      ]_vars

\* A create-mode run that was asked for writeToFile and deployProject in one
\* response, ran writeToFile alone and recorded its pair.
C11_Witness ==
    \E r \in Runs :
        /\ pc[r] = "Generating"
        /\ received[r] = << "functionCalls" >>
        /\ Len(response[r].functionCalls) = 2
        /\ response[r].functionCalls[2].name = "deployProject"
        /\ handlerCalls[r] = << "writeToFile" >>
        /\ Len(currentHistory[r]) = 3
        /\ CallName(currentHistory[r][2]) = "writeToFile"

\* The run is suspended on an await: the read of the files, a model call, a
\* retry delay or a tool call.
Active(r) == pc[r] \in {"Seeding", "Generating", "Sleeping", "ToolDispatch"}

\* C12 as stated: at any time at most one run is active for a project.
C12_SingleOwner ==
    \A r1, r2 \in Runs :
        (r1 # r2 /\ Active(r1) /\ Active(r2)) => projectName[r1] # projectName[r2]

C15_PurgedUntilNewRun ==
    \A name \in purged : name \notin DOMAIN ProjectHistory

IsPrefix(s, t) == Len(s) <= Len(t) /\ SubSeq(t, 1, Len(s)) = s

\* The turns a step of run r appends.
Added(r) ==
    SubSeq(currentHistory'[r], Len(currentHistory[r]) + 1, Len(currentHistory'[r]))

\* C16: the history of a started run only grows at its end, and what a step
\* appends is what its transition records: seeding the context turns and
\* then the request, a correction one user text turn, a settled handler the
\* call turn and then the response turn, the answer one model text turn;
\* a rejection, a sleep, a wake-up and a dispatch append nothing.
C16_MonotonicHistory ==
    [][\A r \in Runs :
         /\ (pc[r] = "idle" /\ pc'[r] # "idle") =>
                IsPrefix(projectHistory'[r], currentHistory'[r])
         /\ pc[r] # "idle" =>
              /\ IsPrefix(currentHistory[r], currentHistory'[r])
              /\ (pc[r] = "Seeding" /\ pc'[r] # "Seeding") =>
                    /\ Len(Added(r)) >= 1
                    /\ Last(Added(r)) = UserText(userProblem[r])
                    /\ \A i \in 1..Len(Added(r)) :
                          Added(r)[i].role = "user" /\ IsTextTurn(Added(r)[i])
              /\ (pc[r] = "Generating" /\ pc'[r] = "Generating" /\ iter'[r] # iter[r]) =>
                    /\ Len(Added(r)) = 1
                    /\ Added(r)[1].role = "user" /\ IsTextTurn(Added(r)[1])
              /\ (pc[r] = "Generating" /\ pc'[r] = "Done") =>
                    Added(r) = << ModelText(outcome'[r].text) >>
              /\ (pc[r] = "ToolDispatch" /\ pc'[r] = "Generating") =>
                    /\ Len(Added(r)) = 2
                    /\ IsCallTurn(Added(r)[1])
                    /\ IsResponseTurn(Added(r)[2])
              /\ (\/ pc'[r] \in {"Sleeping", "Failed", "ToolDispatch"}
                  \/ pc[r] \in {"Sleeping", "Done", "Failed"}
                  \/ pc'[r] = pc[r] /\ iter'[r] = iter[r]) =>
                    Added(r) = << >>
      ]_vars

\* An update that was seeded with its context, corrected once, ran a tool
\* and answered.
C16_Witness ==
    \E r \in Runs :
        /\ pc[r] = "Done"
        /\ isUpdate[r]
        /\ received[r] = << "malformed", "functionCalls", "text" >>
        /\ Len(handlerCalls[r]) = 1
        /\ Len(currentHistory[r]) = 7

\* C17: between the first attempt of a call of retryWithBackoff and its last
\* one nothing is appended: a rejected attempt, the sleep after it and the
\* wake-up for the next attempt leave the run's history and the map as
\* they were, so every attempt sends the same history.
C17_RetryFrame ==
    [][\A r \in Runs :
         (\/ Len(caught'[r]) = Len(caught[r]) + 1
          \/ pc[r] = "Sleeping"
          \/ pc'[r] = "Sleeping"
          \/ (attempt[r] >= 1 /\ attempt'[r] = attempt[r] + 1))
         => /\ currentHistory'[r] = currentHistory[r]
            /\ ProjectHistory' = ProjectHistory
            /\ iter'[r] = iter[r]
      ]_vars

\* The third attempt of one call, after two sleeps.
C17_Witness ==
    \E r \in Runs :
        /\ pc[r] = "Generating"
        /\ attempt[r] = 3
        /\ slept[r] = << baseDelay, 2 * baseDelay >>
        /\ Len(currentHistory[r]) >= 1

\* C18: when the read of an update's files fails or finds no file, seeding
\* goes on: the request is the only turn appended and the run awaits its
\* first generateContent call.
C18_SeedingSurvivesRead ==
    [][\A r \in Runs :
         (pc[r] = "Seeding" /\ pc'[r] # "Seeding" /\ collaborator'[r] # "ok")
         => /\ currentHistory'[r] = Append(currentHistory[r], UserText(userProblem[r]))
            /\ pc'[r] = "Generating"
            /\ attempt'[r] = 1
            /\ ~outcome'[r].threw
      ]_vars

\* An update whose project had no file, awaiting its first answer with the
\* request as its only turn.
C18_Witness ==
    \E r \in Runs :
        /\ isUpdate[r]
        /\ pc[r] = "Generating"
        /\ iter[r] = 1
        /\ collaborator[r] = "noFiles"
        /\ currentHistory[r] = << UserText(userProblem[r]) >>

\* C19 as stated: when a chat request has run to completion, the session
\* stored for its user is the last min(n, 20) of the n entries pushed for the
\* user so far, in their order.
C19_SessionIsRecentEntries ==
    [][\A q \in Requests :
         (chatPc[q] = "Chatting" /\ chatPc'[q] = "idle")
         => LET user == chatRequest[q].userId
            IN /\ user \in DOMAIN ChatHistory'
               /\ arrays'[ChatHistory'[user]] = slice(chatLog'[user], SessionCap)
      ]_vars

\* C20 as stated: every stored session holds at most 20 entries in every
\* state, and so does the chat history handleChatMessage is called with.
C20_CapOnEveryAppend ==
    /\ \A user \in DOMAIN ChatHistory : Len(arrays[ChatHistory[user]]) <= SessionCap
    /\ \A q \in Requests :
          chatPc[q] = "Chatting" => Len(arrays[sessionHistory[q]]) <= SessionCap

\* C21: every request answered with the 'overloaded' message (HTTP 503) was
\* preceded by maxRetries attempts of the generate call that failed.
C21_OverloadAfterRetries ==
    \A r \in Runs :
        (httpResponse[r].status = 503 /\ httpResponse[r].error = Overloaded)
            => /\ pc[r] = "Failed"
               /\ outcome[r].error.from = "generateContent"
               /\ outcome[r].error.at = maxRetries
               /\ Len(caught[r]) = maxRetries

\* The response is an answer in text: it asks for no tool, is not flagged
\* as a malformed call, and a text can be extracted from it.
TextAnswer(resp) ==
    /\ Len(resp.functionCalls) = 0
    /\ ~FlaggedMalformed(resp)
    /\ ~extractResponseText(resp).threw

\* C22: a run returns exactly when generateContent yields a text answer;
\* a tool request, a request that violates the update policy and a malformed
\* call make the loop go round once more, whatever the number of iterations
\* so far, and never make the run return.
C22_ReturnsOnTextOnly ==
    [][\A r \in Runs :
         LET receives == pc[r] = "Generating" /\ received'[r] # received[r]
             resp == response'[r]
         IN /\ (pc[r] # "Done" /\ pc'[r] = "Done")
                  <=> (receives /\ TextAnswer(resp))
            /\ (receives /\ TextAnswer(resp))
                  => outcome'[r].text = extractResponseText(resp).value.text
            /\ (receives /\ ~TextAnswer(resp) /\ pc'[r] # "Failed")
                  => /\ pc'[r] \in {"Generating", "ToolDispatch"}
                     /\ pc'[r] = "Generating" => iter'[r] = iter[r] + 1
                     /\ outcome'[r] = NoOutcome
            /\ (pc[r] = "ToolDispatch" /\ pc'[r] # "ToolDispatch")
                  => \/ pc'[r] = "Failed"
                     \/ pc'[r] = "Generating" /\ iter'[r] = iter[r] + 1
       ]_vars

\* A run has returned its text after a malformed call, a policy violation
\* and a tool call, in any order, made the loop go round.
C22_Witness ==
    /\ pc["run1"] = "Done"
    /\ ~outcome["run1"].threw
    /\ Len(received["run1"]) >= 3
    /\ "malformed" \in Range(received["run1"])
    /\ handlerCalls["run1"] # << >>
    /\ iter["run1"] = Len(received["run1"])

\* The first candidate holds a first part with a text.
HasTextPart(candidate) ==
    /\ candidate.hasContent /\ candidate.hasParts
    /\ Len(candidate.parts) > 0
    /\ candidate.parts[1].hasText

\* C23: a run that received a response without function calls ends with
\* the direct text when there is one, else with the text of the first part
\* of the first candidate, and with the empty string when the first
\* candidate carries no text part (and no text of its own).
C23_EmptyTextForEmptyCandidate ==
    \A r \in Runs :
        (/\ pc[r] \in {"Done", "Failed"}
         /\ received[r] # << >>
         /\ Last(received[r]) = "text"
         /\ response[r].text # << >> \/ Len(response[r].candidates) > 0)
        => LET resp == response[r]
               candidate == resp.candidates[1]
           IN /\ pc[r] = "Done"
              /\ outcome[r].text =
                    IF resp.text # << >> THEN resp.text
                    ELSE IF HasTextPart(candidate) THEN candidate.parts[1].text
                    ELSE IF candidate.text # << >> THEN candidate.text
                    ELSE << >>

\* The keyword sets in their order of priority, and the action of each.
KeywordSets == << BuildPhrases, ShowPhrases, UpdatePhrases, DeployPhrases >>
ActionNames == << "create_project", "show_projects", "update_project", "deploy_project" >>

\* The action of the first set, in that order, a keyword of which the
\* message contains; general_response when there is none.
ActionByPriority(message) ==
    LET hits == { k \in 1..Len(KeywordSets) :
                    includesAny(toLowerCase(message), KeywordSets[k]) }
    IN IF hits = {} THEN "general_response"
       ELSE ActionNames[CHOOSE k \in hits : \A l \in hits : k <= l]

\* The request in slot q has been answered with an action.
Answered(q) == chatPc[q] = "idle" /\ chatResponse[q].status = 200

\* C24: the action a chat request is answered with is the action of the
\* highest-priority keyword set its message matches.
C24_ActionByPriority ==
    \A q \in Requests :
        Answered(q) =>
            chatResponse[q].action = ActionByPriority(chatRequest[q].body.text[1])

\* C25: two chat requests with the same message and the same list of known
\* projects are answered with the same action and the same project name.
C25_ClassificationIsDeterministic ==
    \A q1, q2 \in Requests :
        (/\ Answered(q1) /\ Answered(q2)
         /\ chatRequest[q1].body = chatRequest[q2].body
         /\ context[q1].availableProjects = context[q2].availableProjects)
        => /\ chatResponse[q1].action = chatResponse[q2].action
           /\ chatResponse[q1].projectName = chatResponse[q2].projectName

\* C26: when runAgent failed inside /api/build or /api/update, the body of
\* the answer holds one of the generic messages and nowhere the text of the
\* error that was thrown.
C26_NoRawErrorText ==
    \A r \in Runs :
        (pc[r] = "Failed" /\ httpResponse[r] # NoHttpResponse)
        => /\ httpResponse[r].error \in {Overloaded, InvalidRequest, QuotaExceeded}
           /\ httpResponse[r].error # outcome[r].error.message
           /\ httpResponse[r].details # outcome[r].error.message

\* The file is stored with a content that is not empty.
HasContent(files, file) == file \in DOMAIN files /\ files[file] # << >>

\* What the summary turn says of a file.
Flag(files, file) == IF HasContent(files, file) THEN "Present" ELSE "Missing"

\* The turns seeding has appended for the files that were read.
SeededAs(r, env, files, turns) ==
    /\ Last(turns) = UserText(userProblem[r])
    /\ IF env = "ok" /\ DOMAIN files # {}
       THEN /\ turns[1] = UserText(<< "UPDATE CONTEXT", projectName[r],
                                      Flag(files, "index.html"),
                                      Flag(files, "style.css"),
                                      Flag(files, "script.js") >>)
            /\ IF HasContent(files, "style.css")
               THEN /\ Len(turns) = 3
                    /\ turns[2] = UserText(<< "CURRENT CSS CONTENT" >>
                                           \o files["style.css"])
               ELSE Len(turns) = 2
       ELSE Len(turns) = 1

\* C27: an update of a named project whose files are read gets a summary
\* turn saying which of index.html, style.css and script.js are present and,
\* when style.css is, a turn with its content, and then the request; a
\* creation, or a run without project name, gets the request alone. A file
\* counts as present when its content is not empty.
C27_SeedingTurns ==
    [][\A r \in Runs :
         /\ (pc[r] = "idle" /\ pc'[r] = "Seeding")
               => /\ isUpdate'[r] /\ projectName'[r] # NULL
                  /\ currentHistory'[r] = projectHistory'[r]
         /\ (pc[r] = "idle" /\ pc'[r] = "Generating")
               => /\ ~isUpdate'[r] \/ projectName'[r] = NULL
                  /\ currentHistory'[r] =
                        Append(projectHistory'[r], UserText(userProblem'[r]))
         /\ \A env \in {"ok", "storageError"}, files \in StoredFiles :
               seeded(r, env, files)
               => /\ IsPrefix(currentHistory[r], currentHistory'[r])
                  /\ Len(Added(r)) \in 1..3
                  /\ SeededAs(r, env, files, Added(r))
       ]_vars

\* An update has been seeded with three turns, the request last.
C27_Witness ==
    /\ pc["run1"] = "Generating"
    /\ isUpdate["run1"]
    /\ iter["run1"] = 1 /\ attempt["run1"] = 1
    /\ collaborator["run1"] = "ok"
    /\ Len(currentHistory["run1"]) = 3
    /\ currentHistory["run1"][2].parts[1].text = << "CURRENT CSS CONTENT", "body{}" >>
    /\ currentHistory["run1"][3] = UserText(userProblem["run1"])

\* C28: a tool request that passes the policy has its handler invoked once,
\* with the arguments of the model's call, and nothing is appended before
\* the handler settles; when it returns, the functionCall turn and then the
\* functionResponse turn with the returned value are appended; when it
\* throws, nothing is appended and the run fails.
C28_HandlerThenPair ==
    [][\A r \in Runs :
         /\ (pc[r] = "Generating" /\ pc'[r] = "ToolDispatch")
               => /\ call'[r] = response'[r].functionCalls[1]
                  /\ handlerCalls'[r] = Append(handlerCalls[r], call'[r].name)
                  /\ currentHistory'[r] = currentHistory[r]
         /\ (pc[r] = "ToolDispatch" /\ pc'[r] # "ToolDispatch")
               => LET result == invoke(call[r].name, call[r].args, userId[r],
                                       collaborator'[r])
                  IN /\ handlerCalls'[r] = handlerCalls[r]
                     /\ call'[r] = call[r]
                     /\ IF result.threw
                        THEN /\ pc'[r] = "Failed"
                             /\ currentHistory'[r] = currentHistory[r]
                        ELSE /\ pc'[r] = "Generating"
                             /\ currentHistory'[r] =
                                   currentHistory[r]
                                   \o << ModelCall(call[r]),
                                         UserResponse(call[r].name, result.value) >>
         /\ (pc[r] # "ToolDispatch" /\ pc'[r] # "ToolDispatch")
               => handlerCalls'[r] = handlerCalls[r]
       ]_vars

\* A handler whose collaborator failed has returned, and its value is in the
\* functionResponse turn that follows the functionCall turn.
C28_Witness ==
    /\ pc["run1"] = "Generating"
    /\ handlerCalls["run1"] = << "writeToFile" >>
    /\ collaborator["run1"] = "storageError"
    /\ Len(currentHistory["run1"]) = 3
    /\ currentHistory["run1"][2] = ModelCall(call["run1"])
    /\ currentHistory["run1"][3] =
          UserResponse("writeToFile",
                       writeToFile(ArgsObject, userId["run1"], "storageError").value)

\* C29: with maxRetries >= 1, retryWithBackoff never invokes the operation
\* more than maxRetries times and never waits after the last permitted
\* invocation; every failure it went on from was transient; and when the
\* operation succeeds at invocation i the call has returned the operation's
\* value after exactly i invocations, i - 1 failures and i - 1 sleeps, the
\* sleep before attempt j being baseDelay * 2^(j - 2).
C29_StopsAtFirstSuccess ==
    (retry.pc # "idle" /\ retry.maxRetries >= 1) =>
        /\ retry.invoked \in 1..retry.maxRetries
        /\ retry.attempt = retry.invoked
        /\ retry.pc = "Sleeping" => retry.invoked < retry.maxRetries
        /\ retry.pc = "Calling" => Len(retry.caught) = retry.invoked - 1
        /\ \A j \in 1..Len(retry.caught) :
              j < retry.invoked => Includes503(retry.caught[j])
        /\ retry.pc = "Threw" =>
              /\ Len(retry.caught) = retry.invoked
              /\ retry.thrown = retry.caught[retry.invoked]
        /\ retry.pc = "Returned" =>
              /\ retry.returned \in FnResults
              /\ Len(retry.caught) = retry.invoked - 1
              /\ Len(retry.slept) = retry.invoked - 1
              /\ \A j \in 2..retry.invoked :
                    retry.slept[j - 1] = retry.baseDelay * Pow2(j - 2)

\* The operation failed twice with a transient error and succeeded at the
\* third of four permitted attempts.
C29_Witness ==
    /\ retry.pc = "Returned"
    /\ retry.maxRetries = 4
    /\ retry.invoked = 3
    /\ retry.baseDelay = 500
    /\ retry.slept = << 500, 1000 >>
    /\ retry.returned = << "response" >>

\* Whether each project name of the inputs occurs in each message, letter
\* case apart, and what each update pattern captures from each message.
OccursIn ==
    [message \in MessageTexts |->
        [name \in UNION { Range(list) : list \in ProjectLists \cup IntentLists } |->
            includes(toLowerCase(message), toLowerCase(name))]]

CapturedBy ==
    [message \in MessageTexts |->
        [k \in 1..Len(UpdatePatterns) |->
            capture(message, toLowerCase(message), UpdatePatterns[k], Whitespace)]]

\* name is what the claim says extractProjectName yields for the message and
\* the list.
NamedAs(message, list, name) ==
    IF \E i \in 1..Len(list) : OccursIn[message][list[i]]
    THEN \E i \in 1..Len(list) :
            /\ OccursIn[message][list[i]]
            /\ \A j \in 1..(i - 1) : ~OccursIn[message][list[j]]
            /\ name = list[i]
    ELSE IF \E k \in 1..Len(UpdatePatterns) : CapturedBy[message][k] # NULL
    THEN \E k \in 1..Len(UpdatePatterns) :
            /\ CapturedBy[message][k] # NULL
            /\ \A l \in 1..(k - 1) : CapturedBy[message][l] = NULL
            /\ name = CapturedBy[message][k]
    ELSE name = NULL

\* C30: the project a chat message is taken to mention is the first name of
\* the user's project list that occurs in the message, letter case apart;
\* when no listed name occurs, the word captured by the first update pattern
\* that matches, known or not; and null when no pattern matches either.
C30_FirstListedThenPattern ==
    [][\A q \in Requests :
         (/\ chatPc[q] = "FindingProjects"
          /\ chatPc'[q] # "FindingProjects"
          /\ chatRequest[q].body.kind = "string")
            => NamedAs(chatRequest[q].body.text[1], context'[q].availableProjects,
                       context'[q].mentionedProject)
       ]_vars

\* A message that contains two listed names, the second listed one first,
\* has been resolved to the first name of the list, spelt as listed.
C30_Witness ==
    /\ chatPc["q1"] \notin {"idle", "FindingProjects"}
    /\ chatRequest["q1"].body = EditBoth
    /\ context["q1"].availableProjects = << "Shop", "site" >>
    /\ context["q1"].mentionedProject = "Shop"

\* The names of a list of declarations, in order.
NamesOf(declarations) == [i \in 1..Len(declarations) |-> declarations[i].name]

\* C31: every generateContent call of every run, in either mode and whatever
\* ran before, sends the same seven declarations in the same order and with
\* the same content; their names are unique and each has exactly one handler
\* in availableTools.
C31_StableCatalog ==
    [][\A r \in Runs :
         /\ pc'[r] \notin {"idle", "Seeding"} => tools'[r] # << >>
         /\ tools'[r] # tools[r] =>
               /\ tools[r] = << >>
               /\ NamesOf(tools'[r]) =
                     << "executeCommand", "writeToFile", "listProjects",
                        "readProjectFiles", "updateProjectFiles", "deployProject",
                        "translateContent" >>
               /\ \A i, j \in 1..Len(tools'[r]) :
                     tools'[r][i].name = tools'[r][j].name => i = j
               /\ \A i \in 1..Len(tools'[r]) :
                     /\ availableTools(tools'[r][i].name) = "handler"
                     /\ Cardinality({ k \in 1..Len(ToolNames) :
                                        ToolNames[k] = tools'[r][i].name }) = 1
               /\ \A other \in Runs :
                     tools'[other] # << >> => tools'[other] = tools'[r]
       ]_vars

\* A run in create mode has ended and a run in update mode, started after
\* it, is at its second call or a later one with the seven declarations.
C31_Witness ==
    /\ pc["run1"] = "Done" /\ ~isUpdate["run1"]
    /\ pc["run2"] = "Generating" /\ isUpdate["run2"]
    /\ iter["run2"] >= 2
    /\ Len(projectHistory["run2"]) > 0
    /\ Len(tools["run2"]) = 7
    /\ tools["run2"] = tools["run1"]

\* C32: when a run ends by throwing, the history stored for its project is
\* the one the run found at its start (the project not having been deleted
\* meanwhile).
C32_FailedRunKeepsStored ==
    [][\A r \in Runs :
         (/\ pc[r] # "Failed" /\ pc'[r] = "Failed"
          /\ projectName[r] \in DOMAIN ProjectHistory')
            => ProjectHistory'[projectName[r]] = projectHistory[r]
      ]_vars

\* Two runs overlapped: one was suspended when the other was started.
Overlapped(r, other) == other \in overlapped[r] \/ r \in overlapped[other]

\* C33: when a run of a project returns after a run of the same project that
\* overlapped it has returned, the stored history becomes the history of the
\* run that returns last: the history it found at its start followed by its
\* own turns, without the request of the run that returned first.
C33_LastWriterWins ==
    [][\A r, other \in Runs :
         (/\ r # other
          /\ pc[r] # "Done" /\ pc'[r] = "Done"
          /\ pc[other] = "Done"
          /\ projectName[r] = projectName[other]
          /\ Overlapped(r, other))
            => /\ ProjectHistory'[projectName[r]] = currentHistory'[r]
               /\ IsPrefix(projectHistory[r], currentHistory'[r])
               /\ UserText(userProblem[r]) \in Range(ProjectHistory'[projectName[r]])
               /\ UserText(userProblem[other]) \notin Range(ProjectHistory'[projectName[r]])
      ]_vars

\* Two runs overlapped and both returned; run1, which ran a tool, stored
\* four turns, and run2 then replaced them by its two.
C33_Witness ==
    /\ pc["run1"] = "Done" /\ pc["run2"] = "Done"
    /\ Overlapped("run1", "run2")
    /\ purged = {}
    /\ Len(currentHistory["run1"]) = 4
    /\ Len(currentHistory["run2"]) = 2
    /\ ProjectHistory["site"] = currentHistory["run2"]

\* C34: the history a run sends to the model holds no request of a run of
\* another user, and a user's deletion of a project removes no stored
\* history that holds the request of another user's run.
C34_PerUserHistories ==
    [][/\ \A r, other \in Runs :
            (pc'[r] # "idle" /\ pc'[other] # "idle" /\ userId'[r] # userId'[other])
               => UserText(userProblem'[other]) \notin Range(currentHistory'[r])
       /\ \A user \in { TwoUsers[r] : r \in Runs } :
            apiDelete(user, "site") =>
               \A other \in Runs :
                  ("site" \in DOMAIN ProjectHistory /\ userId[other] # user
                   /\ pc[other] # "idle")
                     => UserText(userProblem[other]) \notin Range(ProjectHistory["site"])
      ]_vars

\* C35: every stored history that is not empty begins with a user turn and
\* ends with a model text turn, so never with a functionCall turn, a
\* functionResponse turn or a user turn.
C35_StoredShape ==
    \A name \in DOMAIN ProjectHistory :
        LET history == ProjectHistory[name]
        IN history # << >> =>
              /\ history[1].role = "user"
              /\ Last(history).role = "model"
              /\ IsTextTurn(Last(history))
              /\ ~IsCallTurn(Last(history))
              /\ ~IsResponseTurn(Last(history))

\* The history of an update that was corrected and ran a tool is stored.
C35_Witness ==
    /\ "site" \in DOMAIN ProjectHistory
    /\ isUpdate["run1"]
    /\ received["run1"] = << "malformed", "functionCalls", "text" >>
    /\ Len(ProjectHistory["site"]) = 7
    /\ IsResponseTurn(ProjectHistory["site"][6])

\* C36: every file a run's writeToFile and updateProjectFiles calls save is
\* saved under the project the run was started with.
C36_WritesTargetOwnProject ==
    \A r \in Runs : pc[r] # "idle" => writes[r] \subseteq {projectName[r]}

\* The step in which request q returns early: Project.find has settled and
\* the request is answered that the project it names was not found.
ReturnsEarly(q) ==
    /\ chatPc[q] = "FindingProjects" /\ chatPc'[q] = "idle"
    /\ chatResponse'[q].status = 200
    /\ chatResponse'[q].action = "show_projects"

\* C37: a chat request that returns early because its message names a
\* project the user does not have leaves the session stored for the user as
\* it was when the request arrived.
C37_EarlyReturnKeepsSession ==
    [][\A q \in Requests :
         ReturnsEarly(q) => Stored(chatRequest[q].userId)' = storedAtStart[q]
      ]_vars

\* C38: the first chat request a user sends after the session was cleared
\* (no message of the user has been pushed since) starts from an empty
\* history, whatever request was in flight when the session was cleared;
\* and the clearing leaves no session in the map.
C38_EmptyAfterClear ==
    [][/\ \A user \in UserIds : chatClear(user) => user \notin DOMAIN ChatHistory'
       /\ \A q \in Requests :
            (/\ chatPc[q] = "idle" /\ chatPc'[q] = "FindingProjects"
             /\ \A i \in 1..Len(chatLog[chatRequest'[q].userId]) :
                   chatLog[chatRequest'[q].userId][i].role # "user")
               => storedAtStart'[q] = << >>
      ]_vars

====
